---- MODULE Spec2Model ----
(***************************************************************************)
(* Model of stack/app_stack.go: NewAppStack builds the resource graph of   *)
(* the CodeRefactorInfra stack in one top-to-bottom pass of builder calls. *)
(*                                                                         *)
(* Strings are modelled as sequences of tokens (words and the separator    *)
(* characters "/" and "-"), so that fmt.Sprintf, strings.TrimPrefix and    *)
(* strings.ReplaceAll are computed the way the code computes them; Flat    *)
(* gives the string itself.  An attribute of a declared resource that is   *)
(* only known after deployment (ARN, id, URL) is the token sequence        *)
(* <<"${", id, ".", attribute, "}">>.                                      *)
(*                                                                         *)
(* Spec is the construction of the graph, its teardown and rebuild, and    *)
(* the requests to the deployed API; SpecDestroy is the recipe of the      *)
(* Makefile's destroy target.                                              *)
(***************************************************************************)
EXTENDS Integers, Sequences, FiniteSets, TLC

VARIABLES
  account,      \* resources.Account
  region,       \* resources.Region
  pc,           \* position in NewAppStack's sequence of builder calls
  called,       \* the builders that have returned, in call order
  h,            \* handle fields of the *Resources structs (construct id or Nil)
  s,            \* string fields of the *Resources structs ("" until set)
  decls,        \* the declarations made so far, in construction order
  routes,       \* routing table of the REST API
  env,          \* environment of the application container
  paramStore,   \* records declared in the parameter store
  secretStore,  \* key/value entries of the objects declared in the secret store
  outputs,      \* CloudFormation outputs
  appStack,     \* the returned AppStack (string fields), <<>> until returned
  iter,         \* order in which the parameter map was iterated in this run
  run,          \* number of the construction run (1 = first deployment)
  prev,         \* summary of the previous run's graph, kept across a teardown
  resp,         \* last request handled by the deployed API and its status
  props,        \* configuration properties of the declared constructs, by construct id
  writes,       \* writes a function made to a handle it received as an argument
  panicked,     \* the builder call in which NewAppStack panicked, or Nil
  mk,           \* a run of `make destroy` and the deployed resources it acts on
  sh,           \* a run of setup-auth.sh and the user pool it acts on
  sts           \* last call a CI workflow made with a web-identity token, and its result

vars == <<account, region, pc, called, h, s, decls, routes, env, paramStore,
          secretStore, outputs, appStack, iter, run, prev, resp, props, writes,
          panicked, mk, sh, sts>>

(***************************************************************************)
(* Bounds of the model.                                                    *)
(***************************************************************************)
NumAccounts == 2
NumRegions == 2
MaxRot == 2
MaxRuns == 2
MaxEnis == 2
MaxDestroys == 2
MaxSetups == 2

Min(a, b) == IF a < b THEN a ELSE b

Range(f) == {f[i] : i \in DOMAIN f}

AccountPool ==
  << <<"123456789012">>, <<"698315877107">>, <<"000000000000">>, <<"111111111111">> >>

RegionPool ==
  << <<"us", "-", "east", "-", "1">>, <<"eu", "-", "west", "-", "2">>,
     <<"ap", "-", "southeast", "-", "2">>, <<"us", "-", "west", "-", "2">> >>

Accounts == {AccountPool[i] : i \in 1..Min(NumAccounts, Len(AccountPool))}

Regions == {RegionPool[i] : i \in 1..Min(NumRegions, Len(RegionPool))}

(***************************************************************************)
(* Strings.                                                                *)
(***************************************************************************)
RECURSIVE Flat(_)
Flat(str) == IF str = <<>> THEN "" ELSE Head(str) \o Flat(Tail(str))

\* fmt.Sprintf with string arguments: each %s (or %v) takes the next argument.
RECURSIVE Sprintf(_, _)
Sprintf(format, args) ==
  IF format = <<>> THEN <<>>
  ELSE IF Head(format) \in {"%s", "%v"}
       THEN (IF args = <<>> THEN <<"%!s(MISSING)">> ELSE Head(args))
            \o Sprintf(Tail(format), IF args = <<>> THEN <<>> ELSE Tail(args))
       ELSE <<Head(format)>> \o Sprintf(Tail(format), args)

HasPrefix(str, prefix) ==
  /\ Len(str) >= Len(prefix)
  /\ SubSeq(str, 1, Len(prefix)) = prefix

\* strings.TrimPrefix
TrimPrefix(str, prefix) ==
  IF HasPrefix(str, prefix) THEN SubSeq(str, Len(prefix) + 1, Len(str)) ELSE str

\* strings.ReplaceAll(str, old, "") for a one-character old
RECURSIVE RemoveAll(_, _)
RemoveAll(str, old) ==
  IF str = <<>> THEN <<>>
  ELSE IF Head(str) = old THEN RemoveAll(Tail(str), old)
       ELSE <<Head(str)>> \o RemoveAll(Tail(str), old)

(***************************************************************************)
(* Handles and declarations.                                               *)
(***************************************************************************)
Nil == "nil"

\* A deploy-time attribute of the resource behind a handle, e.g.
\* database.Cluster.ClusterArn().
Attr(handle, attribute) == <<"${", handle, ".", attribute, "}">>

\* The construct ids a string value is derived from.
RefsOf(str) == {str[i + 1] : i \in {j \in 1..(Len(str) - 1) : str[j] = "${"}}

\* What reading a string field contributes to a declaration's references: the
\* constructs it is derived from, or Nil when the field has not been set.
ReadRefs(str) == IF str = <<>> THEN {Nil} ELSE RefsOf(str)

Decl(id, type, name, refs) == [id |-> id, type |-> type, name |-> name, refs |-> refs]

HandleFields ==
  {"resources.Vpc", "networking.Vpc", "networking.SecretsManagerEndpoint",
   "storage.Bucket", "database.Cluster", "database.CredentialsSecret",
   "database.MigrationLambda", "database.MigrationLambdaRole",
   "database.MigrationLambdaSG", "bedrock.KnowledgeBaseRole", "bedrock.AgentRole",
   "compute.Cluster", "compute.TaskDef", "compute.Service", "compute.EcrRepo",
   "compute.LogGroup", "apigateway.RestAPI", "apigateway.LoadBalancer",
   "cognito.UserPool", "cognito.UserPoolClient", "cognito.UserPoolDomain",
   "frontend.Bucket", "frontend.CloudFrontDistribution", "githubRole"}

StringFields ==
  {"storage.Name", "apigateway.URL", "cognito.UserPoolID", "cognito.ClientID",
   "cognito.DomainURL", "frontend.BucketName", "frontend.DistributionID",
   "frontend.DistributionDomainName"}

\* f with the fields of g overwritten
Set(f, g) == [x \in DOMAIN f |-> IF x \in DOMAIN g THEN g[x] ELSE f[x]]

\* Name of the database, a package constant of the stack package.
RDSPostgresDatabaseName == "RDSPostgresDatabaseName"

(***************************************************************************)
(* NewAppStack: the builders in the order they are called.                 *)
(***************************************************************************)
\* Variants of the call sequence: the trust roles built after the compute
\* resources that read them, and the frontend built before the edge.
NewAppStackOrderBedrockLate ==
  << "createNetworkingResources", "createStorageResources", "createDatabaseResources",
     "createCognitoResources", "createComputeResources", "createBedrockResources",
     "createAPIGatewayResources", "createFrontendResources", "createGitHubActionsRole",
     "createConfigurationStores", "outputs" >>

NewAppStackOrderFrontendFirst ==
  << "createNetworkingResources", "createStorageResources", "createDatabaseResources",
     "createCognitoResources", "createBedrockResources", "createComputeResources",
     "createFrontendResources", "createAPIGatewayResources", "createGitHubActionsRole",
     "createConfigurationStores", "outputs" >>

\* A variant that builds the CI role with the other trust roles.
NewAppStackOrderGitHubRoleEarly ==
  << "createNetworkingResources", "createStorageResources", "createDatabaseResources",
     "createCognitoResources", "createBedrockResources", "createGitHubActionsRole",
     "createComputeResources", "createAPIGatewayResources", "createFrontendResources",
     "createConfigurationStores", "outputs" >>

\* A variant that calls the storage builder a second time.
NewAppStackOrderStorageTwice ==
  << "createNetworkingResources", "createStorageResources", "createDatabaseResources",
     "createStorageResources", "createCognitoResources", "createBedrockResources",
     "createComputeResources", "createAPIGatewayResources", "createFrontendResources",
     "createGitHubActionsRole", "createConfigurationStores", "outputs" >>

NewAppStackOrder ==
  << "createNetworkingResources", "createStorageResources", "createDatabaseResources",
     "createCognitoResources", "createBedrockResources", "createComputeResources",
     "createAPIGatewayResources", "createFrontendResources", "createGitHubActionsRole",
     "createConfigurationStores", "outputs" >>

\* A variant in which a panic is recovered and the next call is made.
AtCallAfterRecover(builder) ==
  /\ pc <= Len(NewAppStackOrder)
  /\ NewAppStackOrder[pc] = builder

\* A variant in which the call that emits the outputs is never made.
AtCallNoOutputs(builder) ==
  /\ panicked = Nil
  /\ pc < Len(NewAppStackOrder)
  /\ NewAppStackOrder[pc] = builder

\* A panic is not recovered anywhere in the package: after one, no call is made.
AtCall(builder) ==
  /\ panicked = Nil
  /\ pc <= Len(NewAppStackOrder)
  /\ NewAppStackOrder[pc] = builder

Done == pc > Len(NewAppStackOrder)

Returned(builder) == \E i \in 1..Len(called) : called[i] = builder

\* The call of the builder has been made: it has returned or has panicked.
Entered(builder) == Returned(builder) \/ panicked = builder

\* No run of setup-auth.sh.
ShIdle ==
  [ line |-> 0, exit |-> "none", out |-> <<>>, failed |-> {}, token |-> FALSE,
    user |-> "absent", userAtStart |-> "absent", prevEnd |-> <<>>, n |-> 0 ]

\* No run of make: nothing is deployed.
MkIdle ==
  [ line |-> 0, exit |-> "none", stack |-> FALSE, secret |-> FALSE, enis |-> {},
    attempted |-> <<>>, failed |-> {}, n |-> 0 ]

InitStack ==
  /\ account \in Accounts
  /\ region \in Regions
  /\ pc = 1
  /\ called = <<>>
  /\ h = [f \in HandleFields |-> Nil]
  /\ s = [f \in StringFields |-> <<>>]
  /\ decls = <<>>
  /\ routes = {}
  /\ env = {}
  /\ paramStore = {}
  /\ secretStore = {}
  /\ outputs = {}
  /\ appStack = <<>>
  /\ iter = <<>>
  /\ run = 1
  /\ prev = <<>>
  /\ resp = <<>>
  /\ props = [id \in {} |-> <<>>]
  /\ writes = {}
  /\ panicked = Nil
  /\ sts = <<>>

Init == InitStack /\ mk = MkIdle /\ sh = ShIdle

\* What every builder call does to the position in NewAppStack.
Step(builder) ==
  /\ AtCall(builder)
  /\ pc' = pc + 1
  /\ called' = Append(called, builder)
  /\ UNCHANGED <<account, region, run, prev, resp, panicked, mk, sh, sts>>

(***************************************************************************)
(* createNetworkingResources, and NewAppStack's resources.Vpc assignment.  *)
(***************************************************************************)
NetworkingDecls == << Decl("RefactorVpc", "AWS::EC2::VPC", <<>>, {}) >>

\* The number of availability zones of each region of RegionPool.
ZonePool == <<6, 3, 3, 4>>

AvailabilityZones(reg) ==
  ZonePool[CHOOSE i \in 1..Len(RegionPool) : RegionPool[i] = reg]

\* A variant of the VpcProps with a single availability zone.
VpcPropsOneAz ==
  [ maxAzs |-> 1, natGateways |-> 0,
    subnetConfiguration |-> {[name |-> "Public", subnetType |-> "PUBLIC", cidrMask |-> 24]} ]

\* The VpcProps of RefactorVpc.
VpcProps ==
  [ maxAzs |-> 2, natGateways |-> 0,
    subnetConfiguration |-> {[name |-> "Public", subnetType |-> "PUBLIC", cidrMask |-> 24]} ]

\* The subnets a Vpc construct declares: one for each entry of the subnet
\* configuration in each of the first maxAzs availability zones of the region.
Subnets(vpcProps, zones) ==
  {[zone |-> z, name |-> c.name, type |-> c.subnetType] :
     z \in 1..Min(vpcProps.maxAzs, zones), c \in vpcProps.subnetConfiguration}

NetworkingProps(reg) ==
  "RefactorVpc" :> [ maxAzs |-> VpcProps.maxAzs, natGateways |-> VpcProps.natGateways,
                     subnets |-> Subnets(VpcProps, AvailabilityZones(reg)) ]

\* awsec2.SubnetSelection{SubnetType: t} on a vpc: its subnets of type t
SelectSubnets(vpc, subnetType) == {sn \in vpc.subnets : sn.type = subnetType}

createNetworkingResources ==
  /\ Step("createNetworkingResources")
  /\ decls' = decls \o NetworkingDecls
  /\ props' = props @@ NetworkingProps(region)
  /\ UNCHANGED writes
  /\ h' = Set(h, ("networking.Vpc" :> "RefactorVpc")
                  @@ ("networking.SecretsManagerEndpoint" :> Nil)
                  @@ ("resources.Vpc" :> "RefactorVpc"))
  /\ UNCHANGED <<s, routes, env, paramStore, secretStore, outputs, appStack, iter>>

(***************************************************************************)
(* createStorageResources                                                  *)
(***************************************************************************)
BucketNameRegionFirst(acct, reg) ==
  Sprintf(<<"code", "-", "refactor", "-", "bucket", "-", "%s", "-", "%s">>, <<reg, acct>>)

BucketName(acct, reg) ==
  Sprintf(<<"code", "-", "refactor", "-", "bucket", "-", "%s", "-", "%s">>, <<acct, reg>>)

StorageDecls(acct, reg) ==
  << Decl("CodeRefactorBucket", "AWS::S3::Bucket", BucketName(acct, reg), {}) >>

createStorageResources ==
  /\ Step("createStorageResources")
  /\ decls' = decls \o StorageDecls(account, region)
  /\ h' = Set(h, "storage.Bucket" :> "CodeRefactorBucket")
  /\ s' = Set(s, "storage.Name" :> BucketName(account, region))
  /\ UNCHANGED <<routes, env, paramStore, secretStore, outputs, appStack, iter, props,
                 writes>>

(***************************************************************************)
(* createDatabaseResources, with createMigrationLambda and                 *)
(* setupMigrationLambdaPermissions, which it calls.                        *)
(***************************************************************************)
\* cluster.Connections().AllowFrom(sg, Port_Tcp(port)): an ingress rule of the
\* cluster's security group, declared when the call is made.
IngressRuleAllPorts(cluster, sg, port) ==
  Decl(cluster \o "/from/" \o sg \o ":" \o "0-65535", "AWS::EC2::SecurityGroupIngress",
       <<>>, {cluster, sg})

IngressRule(cluster, sg, port) ==
  Decl(cluster \o "/from/" \o sg \o ":" \o port, "AWS::EC2::SecurityGroupIngress",
       <<>>, {cluster, sg})

MigrationLambdaDecls(hh, cluster, credentialsSecret) ==
  << Decl("DbMigrationLambdaSG", "AWS::EC2::SecurityGroup", <<>>, {hh["networking.Vpc"]}),
     IngressRule(cluster, "DbMigrationLambdaSG", "5432"),
     Decl("DbMigrationLambdaRole", "AWS::IAM::Role", <<>>, {}),
     Decl("DbMigrationLambdaRole/DefaultPolicy", "AWS::IAM::Policy", <<>>,
          {"DbMigrationLambdaRole", credentialsSecret, cluster}),
     Decl("DbMigrationLambda", "AWS::Lambda::Function", <<>>,
          {hh["networking.Vpc"], "DbMigrationLambdaSG", credentialsSecret, cluster,
           "DbMigrationLambdaRole"}) >>

\* A variant that declares the cluster before its credential secret.
DatabaseDeclsClusterFirst(hh) ==
  << Decl(RDSPostgresDatabaseName, "AWS::RDS::DBCluster",
          <<"code", "-", "refactor", "-", "cluster">>,
          {hh["networking.Vpc"], "CodeRefactorDbSecret"}),
     Decl("CodeRefactorDbSecret", "AWS::SecretsManager::Secret",
          <<"code", "-", "refactor", "-", "db", "-", "secret">>, {}) >>
  \o MigrationLambdaDecls(hh, RDSPostgresDatabaseName, "CodeRefactorDbSecret")

DatabaseDecls(hh) ==
  << Decl("CodeRefactorDbSecret", "AWS::SecretsManager::Secret",
          <<"code", "-", "refactor", "-", "db", "-", "secret">>, {}),
     Decl(RDSPostgresDatabaseName, "AWS::RDS::DBCluster",
          <<"code", "-", "refactor", "-", "cluster">>,
          {hh["networking.Vpc"], "CodeRefactorDbSecret"}) >>
  \o MigrationLambdaDecls(hh, RDSPostgresDatabaseName, "CodeRefactorDbSecret")

Statement(actions, resources) == [actions |-> actions, resources |-> resources]

\* secret.GrantRead(role): a statement of the role's policy that allows reading
\* the secret's value and description, on that secret.
GrantRead(secret) ==
  Statement({"secretsmanager:GetSecretValue", "secretsmanager:DescribeSecret"},
            {Flat(Attr(secret, "SecretArn"))})

\* A variant of the permissions with the secret-store statement on every secret.
setupMigrationLambdaPermissionsAnySecret(role, credentialsSecret, cluster) ==
  [ managedPolicies |-> {"service-role/AWSLambdaBasicExecutionRole",
                         "service-role/AWSLambdaVPCAccessExecutionRole"},
    statements |->
      { Statement({"secretsmanager:GetSecretValue", "secretsmanager:DescribeSecret"}, {"*"}),
        Statement({"rds-data:ExecuteStatement", "rds-data:BatchExecuteStatement",
                   "rds-data:BeginTransaction", "rds-data:CommitTransaction",
                   "rds-data:RollbackTransaction", "rds-data:ExecuteSql",
                   "rds-data:DescribeTable"},
                  {Flat(Attr(cluster, "ClusterArn"))}) } ]

\* setupMigrationLambdaPermissions: what the role holds when the function returns.
setupMigrationLambdaPermissions(role, credentialsSecret, cluster) ==
  [ managedPolicies |-> {"service-role/AWSLambdaBasicExecutionRole",
                         "service-role/AWSLambdaVPCAccessExecutionRole"},
    statements |->
      { GrantRead(credentialsSecret),
        Statement({"rds-data:ExecuteStatement", "rds-data:BatchExecuteStatement",
                   "rds-data:BeginTransaction", "rds-data:CommitTransaction",
                   "rds-data:RollbackTransaction", "rds-data:ExecuteSql",
                   "rds-data:DescribeTable"},
                  {Flat(Attr(cluster, "ClusterArn"))}) } ]

\* A write to a handle the function received as an argument.
Write(by, target, what) == [by |-> by, target |-> target, what |-> what]

DatabaseProps(hh) ==
  (RDSPostgresDatabaseName
     :> [ vpc |-> hh["networking.Vpc"], subnetType |-> "PUBLIC", port |-> "5432",
          enableDataApi |-> TRUE, credentials |-> "CodeRefactorDbSecret" ])
  @@ ("DbMigrationLambdaRole"
     :> setupMigrationLambdaPermissions("DbMigrationLambdaRole", "CodeRefactorDbSecret",
                                        RDSPostgresDatabaseName))
  @@ ("DbMigrationLambda"
     :> [ vpc |-> hh["networking.Vpc"], subnetType |-> "PUBLIC",
          role |-> "DbMigrationLambdaRole" ])

\* createMigrationLambda adds an ingress rule to the cluster it receives, and
\* setupMigrationLambdaPermissions adds policies to the role it receives.
DatabaseWrites ==
  { Write("createMigrationLambda", RDSPostgresDatabaseName, "AllowFrom DbMigrationLambdaSG 5432"),
    Write("setupMigrationLambdaPermissions", "DbMigrationLambdaRole", "AddManagedPolicy"),
    Write("setupMigrationLambdaPermissions", "DbMigrationLambdaRole", "AddToPolicy") }

\* The generated credential secret: the template's username and the generated key.
DbSecretEntries ==
  { [secret |-> <<"code", "-", "refactor", "-", "db", "-", "secret">>,
     key |-> "username", value |-> <<"postgres">>],
    [secret |-> <<"code", "-", "refactor", "-", "db", "-", "secret">>,
     key |-> "password", value |-> Attr("CodeRefactorDbSecret", "GeneratedString")] }

createDatabaseResources ==
  /\ Step("createDatabaseResources")
  /\ decls' = decls \o DatabaseDecls(h)
  /\ secretStore' = secretStore \cup DbSecretEntries
  /\ h' = Set(h, ("database.Cluster" :> RDSPostgresDatabaseName)
                  @@ ("database.CredentialsSecret" :> "CodeRefactorDbSecret")
                  @@ ("database.MigrationLambda" :> "DbMigrationLambda")
                  @@ ("database.MigrationLambdaRole" :> "DbMigrationLambdaRole")
                  @@ ("database.MigrationLambdaSG" :> "DbMigrationLambdaSG"))
  /\ props' = props @@ DatabaseProps(h)
  /\ writes' = writes \cup DatabaseWrites
  /\ UNCHANGED <<s, routes, env, paramStore, outputs, appStack, iter>>

(***************************************************************************)
(* createCognitoResources                                                  *)
(***************************************************************************)
DomainPrefix(acct) == Sprintf(<<"code", "-", "refactor", "-", "%s">>, <<acct>>)

CognitoDecls(acct) ==
  << Decl("CodeRefactorUserPool", "AWS::Cognito::UserPool",
          <<"code", "-", "refactor", "-", "user", "-", "pool">>, {}),
     Decl("CodeRefactorUserPoolClient", "AWS::Cognito::UserPoolClient",
          <<"code", "-", "refactor", "-", "client">>, {"CodeRefactorUserPool"}),
     Decl("CodeRefactorUserPoolDomain", "AWS::Cognito::UserPoolDomain",
          DomainPrefix(acct), {"CodeRefactorUserPool"}) >>

\* awscdk.Duration, in minutes
Duration_Hours(n) == n * 60

Duration_Days(n) == n * 24 * 60

\* A variant of the client's properties with the refresh token valid for 3 hours.
CognitoPropsShortRefresh ==
  ("CodeRefactorUserPool" :> [ selfSignUpEnabled |-> TRUE, autoVerifyEmail |-> TRUE ])
  @@ ("CodeRefactorUserPoolClient"
     :> [ generateSecret |-> FALSE,
          idTokenValidity |-> Duration_Hours(24),
          accessTokenValidity |-> Duration_Hours(24),
          refreshTokenValidity |-> Duration_Hours(3) ])

\* UserPoolProps and UserPoolClientProps
CognitoProps ==
  ("CodeRefactorUserPool" :> [ selfSignUpEnabled |-> TRUE, autoVerifyEmail |-> TRUE ])
  @@ ("CodeRefactorUserPoolClient"
     :> [ generateSecret |-> FALSE,
          idTokenValidity |-> Duration_Hours(24),
          accessTokenValidity |-> Duration_Hours(24),
          refreshTokenValidity |-> Duration_Days(30) ])

createCognitoResources ==
  /\ Step("createCognitoResources")
  /\ props' = props @@ CognitoProps
  /\ UNCHANGED writes
  /\ decls' = decls \o CognitoDecls(account)
  /\ h' = Set(h, ("cognito.UserPool" :> "CodeRefactorUserPool")
                  @@ ("cognito.UserPoolClient" :> "CodeRefactorUserPoolClient")
                  @@ ("cognito.UserPoolDomain" :> "CodeRefactorUserPoolDomain"))
  /\ s' = Set(s, ("cognito.UserPoolID" :> Attr("CodeRefactorUserPool", "UserPoolId"))
                  @@ ("cognito.ClientID" :> Attr("CodeRefactorUserPoolClient", "UserPoolClientId"))
                  @@ ("cognito.DomainURL" :> Attr("CodeRefactorUserPoolDomain", "DomainName")))
  /\ UNCHANGED <<routes, env, paramStore, secretStore, outputs, appStack, iter>>

(***************************************************************************)
(* createBedrockResources: createBedrockKnowledgeBaseRole and              *)
(* createBedrockAgentRole.                                                 *)
(***************************************************************************)
BedrockDecls(hh) ==
  << Decl("BedrockKnowledgeBaseRole", "AWS::IAM::Role", <<>>,
          {hh["storage.Bucket"], hh["database.CredentialsSecret"], hh["database.Cluster"]}),
     Decl("BedrockAgentRole", "AWS::IAM::Role", <<>>, {}) >>

createBedrockResources ==
  /\ Step("createBedrockResources")
  /\ decls' = decls \o BedrockDecls(h)
  /\ h' = Set(h, ("bedrock.KnowledgeBaseRole" :> "BedrockKnowledgeBaseRole")
                  @@ ("bedrock.AgentRole" :> "BedrockAgentRole"))
  /\ UNCHANGED <<s, routes, env, paramStore, secretStore, outputs, appStack, iter, props,
                 writes>>

(***************************************************************************)
(* createComputeResources                                                  *)
(***************************************************************************)
EnvVar(name, value) == [name |-> name, value |-> value]

\* The Environment map of the RefactorContainer definition, by its sections.
GitEnvironment ==
  { EnvVar("GIT_TOKEN", <<"placeholder", "-", "token">>),
    EnvVar("GIT_AUTHOR", <<"CodeRefactorBot">>),
    EnvVar("GIT_EMAIL", <<"bot@code", "-", "refactor.example.com">>) }

AIEnvironment(hh, ss, reg) ==
  { EnvVar("AI_DEFAULT_PROVIDER", <<"bedrock">>),
    EnvVar("AI_LOCAL_ENABLED", <<"false">>),
    EnvVar("AI_BEDROCK_RDS_POSTGRES_CREDENTIALS_SECRET_ARN",
           Attr(hh["database.CredentialsSecret"], "SecretArn")),
    EnvVar("AI_BEDROCK_RDS_POSTGRES_INSTANCE_ARN", Attr(hh["database.Cluster"], "ClusterArn")),
    EnvVar("AI_BEDROCK_RDS_POSTGRES_DATABASE_NAME", <<RDSPostgresDatabaseName>>),
    EnvVar("AI_BEDROCK_RDS_POSTGRES_SCHEMA_ENSURE_LAMBDA_ARN",
           Attr(hh["database.MigrationLambda"], "FunctionArn")),
    EnvVar("AI_BEDROCK_REGION", reg),
    EnvVar("AI_BEDROCK_KNOWLEDGE_BASE_SERVICE_ROLE_ARN",
           Attr(hh["bedrock.KnowledgeBaseRole"], "RoleArn")),
    EnvVar("AI_BEDROCK_AGENT_SERVICE_ROLE_ARN", Attr(hh["bedrock.AgentRole"], "RoleArn")),
    EnvVar("AI_BEDROCK_S3_BUCKET_NAME", ss["storage.Name"]) }

CognitoEnvironment(ss, reg) ==
  { EnvVar("COGNITO_USER_POOL_ID", ss["cognito.UserPoolID"]),
    EnvVar("COGNITO_CLIENT_ID", ss["cognito.ClientID"]),
    EnvVar("COGNITO_REGION", reg) }

MetricsEnvironmentNoServiceName(reg) ==
  { EnvVar("METRICS_NAMESPACE", <<"CodeRefactorTool", "/", "API">>),
    EnvVar("METRICS_REGION", reg),
    EnvVar("METRICS_ENABLED", <<"true">>) }

MetricsEnvironment(reg) ==
  { EnvVar("METRICS_NAMESPACE", <<"CodeRefactorTool", "/", "API">>),
    EnvVar("METRICS_REGION", reg),
    EnvVar("METRICS_SERVICE_NAME", <<"code", "-", "refactor", "-", "api">>),
    EnvVar("METRICS_ENABLED", <<"true">>) }

ApplicationEnvironment ==
  { EnvVar("TIMEOUT_SECONDS", <<"180">>),
    EnvVar("LOG_LEVEL", <<"info">>) }

ContainerEnvironment(hh, ss, reg) ==
  GitEnvironment \cup AIEnvironment(hh, ss, reg) \cup CognitoEnvironment(ss, reg)
    \cup MetricsEnvironment(reg) \cup ApplicationEnvironment

EnvRefs(e) == UNION {ReadRefs(v.value) : v \in e}

ComputeDecls(hh, ss, reg) ==
  << Decl("RefactorCluster", "AWS::ECS::Cluster", <<>>, {hh["networking.Vpc"]}),
     Decl("FargateLogGroup", "AWS::Logs::LogGroup",
          <<"/", "ecs", "/", "code", "-", "refactor">>, {}),
     Decl("RefactorTaskRole", "AWS::IAM::Role", <<>>, {}),
     Decl("RefactorTaskRole/DefaultPolicy", "AWS::IAM::Policy", <<>>,
          {"RefactorTaskRole", hh["database.CredentialsSecret"]}),
     Decl("RefactorTaskDef", "AWS::ECS::TaskDefinition", <<>>, {"RefactorTaskRole"}),
     Decl("RefactorEcrRepo", "AWS::ECR::Repository",
          <<"refactor", "-", "ecr", "-", "repo">>, {}),
     Decl("RefactorContainer", "ContainerDefinition", <<>>,
          {"RefactorTaskDef", "RefactorEcrRepo", "FargateLogGroup"}
            \cup EnvRefs(ContainerEnvironment(hh, ss, reg))) >>

createComputeResources ==
  /\ Step("createComputeResources")
  /\ decls' = decls \o ComputeDecls(h, s, region)
  /\ env' = ContainerEnvironment(h, s, region)
  /\ h' = Set(h, ("compute.Cluster" :> "RefactorCluster")
                  @@ ("compute.TaskDef" :> "RefactorTaskDef")
                  @@ ("compute.Service" :> Nil)
                  @@ ("compute.EcrRepo" :> "RefactorEcrRepo")
                  @@ ("compute.LogGroup" :> "FargateLogGroup"))
  /\ UNCHANGED <<s, routes, paramStore, secretStore, outputs, appStack, iter, props,
                 writes>>

(***************************************************************************)
(* createAPIGatewayResources                                               *)
(***************************************************************************)
Route(method, path, auth, integration) ==
  [method |-> method, path |-> path, auth |-> auth, integration |-> integration]

\* DefaultCorsPreflightOptions of the RestApi: the root and every resource added
\* under it get an OPTIONS method answered by the gateway itself, with no
\* authorizer.
CorsPreflight(path) == Route("OPTIONS", path, "NONE", "MOCK_CORS")

\* api.Root().AddProxy(...) with AnyMethod: the greedy resource {proxy+} with an ANY
\* method that takes the proxy's DefaultIntegration and DefaultMethodOptions.  A
\* proxy mounted under the root also adds ANY to the root, and that method takes
\* the root's defaults: the RestApi sets neither a default integration nor default
\* method options.
ProxyRoutesNoMethodOptions ==
  << CorsPreflight("/{proxy+}"),
     Route("ANY", "/", "NONE", "MOCK"),
     Route("ANY", "/{proxy+}", "NONE", "HTTP_PROXY") >>

ProxyRoutes ==
  << CorsPreflight("/{proxy+}"),
     Route("ANY", "/", "NONE", "MOCK"),
     Route("ANY", "/{proxy+}", "COGNITO", "HTTP_PROXY") >>

\* api.Root().AddResource(name).AddMethod("GET", integration, AuthorizationType_NONE)
PublicRoutes(name) ==
  << CorsPreflight("/" \o name), Route("GET", "/" \o name, "NONE", "HTTP_PROXY") >>

APIRoutes ==
  << CorsPreflight("/") >> \o ProxyRoutes
  \o PublicRoutes("health") \o PublicRoutes("swagger") \o PublicRoutes("auth")

MethodDecl(r) ==
  Decl("CodeRefactorAPI" \o r.path \o "/" \o r.method, "AWS::ApiGateway::Method", <<>>,
       {"CodeRefactorAPI"}
         \cup (IF r.auth = "COGNITO" THEN {"CodeRefactorAuthorizer"} ELSE {})
         \cup (IF r.integration = "HTTP_PROXY" THEN {"CodeRefactorALB"} ELSE {}))

MethodDecls(rs) == [i \in 1..Len(rs) |-> MethodDecl(rs[i])]

APIGatewayDecls(hh) ==
  << Decl("CodeRefactorALB", "AWS::ElasticLoadBalancingV2::LoadBalancer", <<>>,
          {hh["networking.Vpc"]}),
     Decl("CodeRefactorTargetGroup", "AWS::ElasticLoadBalancingV2::TargetGroup", <<>>,
          {hh["networking.Vpc"]}),
     Decl("EcsServiceSG", "AWS::EC2::SecurityGroup", <<>>, {hh["networking.Vpc"]}),
     Decl("CodeRefactorService", "AWS::ECS::Service", <<>>,
          {hh["compute.Cluster"], hh["compute.TaskDef"], "EcsServiceSG"}),
     Decl("CodeRefactorService/TargetGroupAttachment", "Attachment", <<>>,
          {"CodeRefactorService", "CodeRefactorTargetGroup"}),
     IngressRule(hh["database.Cluster"], "EcsServiceSG", "5432"),
     Decl("CodeRefactorListener", "AWS::ElasticLoadBalancingV2::Listener", <<>>,
          {"CodeRefactorALB", "CodeRefactorTargetGroup"}),
     Decl("CodeRefactorAPI", "AWS::ApiGateway::RestApi",
          <<"code", "-", "refactor", "-", "api">>, {}),
     Decl("CodeRefactorAuthorizer", "AWS::ApiGateway::Authorizer",
          <<"code", "-", "refactor", "-", "authorizer">>, {hh["cognito.UserPool"]}) >>
  \o MethodDecls(APIRoutes)

APIGatewayProps(hh) ==
  ("CodeRefactorALB"
     :> [ vpc |-> hh["networking.Vpc"], internetFacing |-> TRUE, subnetType |-> "PUBLIC" ])
  @@ ("CodeRefactorService"
     :> [ desiredCount |-> 1, subnetType |-> "PUBLIC", assignPublicIp |-> TRUE ])

\* A variant that only sets the Service field.
APIGatewayWritesOnlyService(hh) ==
  { Write("createAPIGatewayResources", "compute", "Service =") }

\* createAPIGatewayResources adds an ingress rule to the database cluster it
\* receives and sets the Service field of the ComputeResources it receives.
APIGatewayWrites(hh) ==
  { Write("createAPIGatewayResources", hh["database.Cluster"], "AllowFrom EcsServiceSG 5432"),
    Write("createAPIGatewayResources", "compute", "Service =") }

createAPIGatewayResources ==
  /\ Step("createAPIGatewayResources")
  /\ props' = props @@ APIGatewayProps(h)
  /\ writes' = writes \cup APIGatewayWrites(h)
  /\ decls' = decls \o APIGatewayDecls(h)
  /\ routes' = Range(APIRoutes)
  /\ h' = Set(h, ("compute.Service" :> "CodeRefactorService")
                  @@ ("apigateway.RestAPI" :> "CodeRefactorAPI")
                  @@ ("apigateway.LoadBalancer" :> "CodeRefactorALB"))
  /\ s' = Set(s, "apigateway.URL" :> Attr("CodeRefactorAPI", "Url"))
  /\ UNCHANGED <<env, paramStore, secretStore, outputs, appStack, iter>>

(***************************************************************************)
(* createFrontendResources                                                 *)
(***************************************************************************)
FrontendBucketName(acct, reg) ==
  Sprintf(<<"code", "-", "refactor", "-", "frontend", "-", "%s", "-", "%s">>, <<acct, reg>>)

FrontendDecls(acct, reg) ==
  << Decl("FrontendBucket", "AWS::S3::Bucket", FrontendBucketName(acct, reg), {}),
     Decl("FrontendOAI", "AWS::CloudFront::CloudFrontOriginAccessIdentity", <<>>, {}),
     Decl("FrontendBucket/Policy", "AWS::S3::BucketPolicy", <<>>,
          {"FrontendBucket", "FrontendOAI"}),
     Decl("FrontendDistribution", "AWS::CloudFront::Distribution", <<>>,
          {"FrontendBucket", "FrontendOAI"}) >>

createFrontendResources ==
  /\ Step("createFrontendResources")
  /\ decls' = decls \o FrontendDecls(account, region)
  /\ h' = Set(h, ("frontend.Bucket" :> "FrontendBucket")
                  @@ ("frontend.CloudFrontDistribution" :> "FrontendDistribution"))
  /\ s' = Set(s, ("frontend.BucketName" :> FrontendBucketName(account, region))
                  @@ ("frontend.DistributionID" :> Attr("FrontendDistribution", "DistributionId"))
                  @@ ("frontend.DistributionDomainName"
                        :> Attr("FrontendDistribution", "DistributionDomainName")))
  /\ UNCHANGED <<routes, env, paramStore, secretStore, outputs, appStack, iter, props,
                 writes>>

(***************************************************************************)
(* createGitHubActionsRole                                                 *)
(***************************************************************************)
GitHubActionsRoleDecls(hh, ss) ==
  << Decl("GitHubActionsRole", "AWS::IAM::Role",
          <<"CodeRefactor", "-", "GitHubActions", "-", "Role">>,
          {hh["frontend.Bucket"]} \cup ReadRefs(ss["frontend.DistributionID"])) >>

\* A statement of an inline policy: actions allowed on resources.
PolicyStatement(policy, actions, resources) ==
  [policy |-> policy, actions |-> actions, resources |-> resources]

\* InlinePolicies of the role
InlinePolicies(hh, ss, acct, reg) ==
  { PolicyStatement("ECRAccessPolicy",
              {"ecr:GetAuthorizationToken", "ecr:BatchCheckLayerAvailability",
               "ecr:GetDownloadUrlForLayer", "ecr:BatchGetImage", "ecr:PutImage",
               "ecr:InitiateLayerUpload", "ecr:UploadLayerPart", "ecr:CompleteLayerUpload"},
              {<<"*">>}),
    PolicyStatement("S3FrontendDeployPolicy",
              {"s3:GetObject", "s3:PutObject", "s3:DeleteObject", "s3:ListBucket",
               "s3:GetBucketLocation"},
              {Attr(hh["frontend.Bucket"], "BucketArn"),
               Sprintf(<<"%s", "/", "*">>, <<Attr(hh["frontend.Bucket"], "BucketArn")>>)}),
    PolicyStatement("CloudFrontInvalidationPolicy",
              {"cloudfront:CreateInvalidation", "cloudfront:GetInvalidation",
               "cloudfront:ListInvalidations"},
              {Sprintf(<<"arn:aws:cloudfront::", "%s", ":distribution/", "%s">>,
                       <<acct, ss["frontend.DistributionID"]>>)}),
    PolicyStatement("ParameterStoreAccessPolicy",
              {"ssm:GetParameter", "ssm:GetParameters", "ssm:GetParametersByPath"},
              {Sprintf(<<"arn:aws:ssm:", "%s", ":", "%s", ":parameter",
                         "/", "code", "-", "refactor", "/", "*">>, <<reg, acct>>)}),
    PolicyStatement("SecretsManagerAccessPolicy",
              {"secretsmanager:GetSecretValue", "secretsmanager:DescribeSecret"},
              {Sprintf(<<"arn:aws:secretsmanager:", "%s", ":", "%s", ":secret:",
                         "/", "code", "-", "refactor", "/", "*">>, <<reg, acct>>)}) }

\* The ARN of the OIDC provider of an issuer in the account.
OidcProviderArn(acct, issuer) ==
  Sprintf(<<"arn:aws:iam::", "%s", ":oidc-provider/", "%s">>, <<acct, <<issuer>> >>)

\* A variant of the role that trusts every repository of the owner.
GitHubActionsRolePropsAnyRepo(hh, ss, acct, reg) ==
  "GitHubActionsRole"
    :> [ federated |-> OidcProviderArn(acct, "token.actions.githubusercontent.com"),
         stringEquals |-> [aud |-> <<"sts.amazonaws.com">>],
         stringLike |-> [sub |-> {<<"repo:", "kazemisoroush", "/", "*">>}],
         inlinePolicies |-> InlinePolicies(hh, ss, acct, reg) ]

\* RoleProps: the web-identity principal with its conditions, and the inline
\* policies.
GitHubActionsRoleProps(hh, ss, acct, reg) ==
  "GitHubActionsRole"
    :> [ federated |-> OidcProviderArn(acct, "token.actions.githubusercontent.com"),
         stringEquals |-> [aud |-> <<"sts.amazonaws.com">>],
         stringLike |->
           [sub |-> {<<"repo:", "kazemisoroush", "/", "code-refactoring-tool", ":", "*">>,
                     <<"repo:", "kazemisoroush", "/", "code-refactoring-ui", ":", "*">>}],
         inlinePolicies |-> InlinePolicies(hh, ss, acct, reg) ]

createGitHubActionsRole ==
  /\ Step("createGitHubActionsRole")
  /\ decls' = decls \o GitHubActionsRoleDecls(h, s)
  /\ h' = Set(h, "githubRole" :> "GitHubActionsRole")
  /\ props' = props @@ GitHubActionsRoleProps(h, s, account, region)
  /\ UNCHANGED <<s, routes, env, paramStore, secretStore, outputs, appStack, iter, writes>>

(***************************************************************************)
(* createConfigurationStores: createNonSecretParameters and                *)
(* createSecretParameters.                                                 *)
(***************************************************************************)
RECURSIVE Dashed(_)
Dashed(words) ==
  IF Len(words) <= 1 THEN words ELSE <<Head(words), "-">> \o Dashed(Tail(words))

ParamNameNoRoot(scope, words) == <<"/", scope, "/">> \o Dashed(words)

\* The parameter name /code-refactor/<scope>/<words joined by "-">
ParamName(scope, words) ==
  <<"/", "code", "-", "refactor", "/", scope, "/">> \o Dashed(words)

Entry(name, value) == [name |-> name, value |-> value]

BackendParams(hh, ss, acct, reg) ==
  << Entry(ParamName("backend", <<"api", "gateway", "url">>), ss["apigateway.URL"]),
     Entry(ParamName("backend", <<"cognito", "user", "pool", "id">>), ss["cognito.UserPoolID"]),
     Entry(ParamName("backend", <<"cognito", "region">>), reg),
     Entry(ParamName("backend", <<"s3", "bucket", "name">>), ss["storage.Name"]),
     Entry(ParamName("backend", <<"rds", "cluster", "arn">>),
           Attr(hh["database.Cluster"], "ClusterArn")),
     Entry(ParamName("backend", <<"aws", "region">>), reg),
     Entry(ParamName("backend", <<"aws", "account", "id">>), acct),
     Entry(ParamName("backend", <<"ecr", "repository", "uri">>),
           Attr(hh["compute.EcrRepo"], "RepositoryUri")),
     Entry(ParamName("backend", <<"ecs", "cluster", "name">>),
           Attr(hh["compute.Cluster"], "ClusterName")),
     Entry(ParamName("backend", <<"rds", "postgres", "schema", "ensure", "lambda", "arn">>),
           Attr(hh["database.MigrationLambda"], "FunctionArn")) >>

FrontendParamsWithClientID(hh, ss, reg) ==
  << Entry(ParamName("frontend", <<"api", "base", "url">>), ss["apigateway.URL"]),
     Entry(ParamName("frontend", <<"cognito", "user", "pool", "id">>), ss["cognito.UserPoolID"]),
     Entry(ParamName("frontend", <<"cognito", "client", "id">>), ss["cognito.ClientID"]),
     Entry(ParamName("frontend", <<"cognito", "hosted", "ui", "url">>), ss["cognito.DomainURL"]),
     Entry(ParamName("frontend", <<"aws", "region">>), reg),
     Entry(ParamName("frontend", <<"cloudfront", "domain">>),
           Sprintf(<<"https://", "%s">>, <<ss["frontend.DistributionDomainName"]>>)) >>

FrontendParams(hh, ss, reg) ==
  << Entry(ParamName("frontend", <<"api", "base", "url">>), ss["apigateway.URL"]),
     Entry(ParamName("frontend", <<"cognito", "user", "pool", "id">>), ss["cognito.UserPoolID"]),
     Entry(ParamName("frontend", <<"cognito", "hosted", "ui", "url">>), ss["cognito.DomainURL"]),
     Entry(ParamName("frontend", <<"aws", "region">>), reg),
     Entry(ParamName("frontend", <<"cloudfront", "domain">>),
           Sprintf(<<"https://", "%s">>, <<ss["frontend.DistributionDomainName"]>>)) >>

DeploymentParams(hh, ss, reg) ==
  << Entry(ParamName("deployment", <<"frontend", "bucket">>), ss["frontend.BucketName"]),
     Entry(ParamName("deployment", <<"cloudfront", "distribution", "id">>),
           ss["frontend.DistributionID"]),
     Entry(ParamName("deployment", <<"ecr", "repository", "uri">>),
           Attr(hh["compute.EcrRepo"], "RepositoryUri")),
     Entry(ParamName("deployment", <<"aws", "region">>), reg) >>

\* allParams[k] = v for every entry of a map, in turn: a later entry with the same
\* key replaces the earlier one.  The result lists the keys in first-insertion
\* order.
RECURSIVE PutAll(_, _)
PutAll(all, entries) ==
  IF entries = <<>> THEN all
  ELSE LET e == Head(entries)
           at == {i \in 1..Len(all) : all[i].name = e.name}
       IN PutAll(IF at = {} THEN Append(all, e)
                 ELSE [i \in 1..Len(all) |-> IF i \in at THEN e ELSE all[i]],
                 Tail(entries))

AllParams(hh, ss, acct, reg) ==
  PutAll(PutAll(PutAll(<<>>, BackendParams(hh, ss, acct, reg)),
                FrontendParams(hh, ss, reg)),
         DeploymentParams(hh, ss, reg))

\* The orders in which `range allParams` may visit the map: the language leaves
\* the order open, the model takes rotations of the insertion order and their
\* reversals.
Rot(seq, k) ==
  IF seq = <<>> THEN <<>>
  ELSE LET n == Len(seq)
       IN [i \in 1..n |-> seq[((i - 1 + k) % n) + 1]]

Reverse(seq) == [i \in 1..Len(seq) |-> seq[Len(seq) + 1 - i]]

IterationOrders(all) ==
  {Rot(all, k) : k \in 0..MaxRot} \cup {Reverse(Rot(all, k)) : k \in 0..MaxRot}

\* A variant that also drops the scope (backend, frontend, deployment) of the name.
ConstructIDNoScope(paramName) ==
  LET scoped == TrimPrefix(paramName, <<"/", "code", "-", "refactor", "/">>)
  IN RemoveAll(RemoveAll(SubSeq(scoped, 3, Len(scoped)), "/"), "-")

\* constructID: the parameter name without "/code-refactor/", "/" and "-"
ConstructID(paramName) ==
  RemoveAll(RemoveAll(TrimPrefix(paramName, <<"/", "code", "-", "refactor", "/">>), "/"), "-")

\* The body of the loop over allParams
ParamDecl(e) ==
  Decl(Flat(Sprintf(<<"Param", "%s">>, <<ConstructID(e.name)>>)), "AWS::SSM::Parameter",
       e.name, ReadRefs(e.value))

\* A variant that names each parameter's construct after its place in the loop.
NonSecretParameterDeclsByIndex(order) ==
  [i \in 1..Len(order) |->
     Decl("Param" \o ToString(i), "AWS::SSM::Parameter", order[i].name,
          ReadRefs(order[i].value))]

NonSecretParameterDecls(order) == [i \in 1..Len(order) |-> ParamDecl(order[i])]

SecretEntry(secret, key, value) == [secret |-> secret, key |-> key, value |-> value]

BackendSecretsName == <<"/", "code", "-", "refactor", "/", "backend", "/", "secrets">>

FrontendSecretsName == <<"/", "code", "-", "refactor", "/", "frontend", "/", "secrets">>

BackendSecretsNoAgentRole(hh, ss) ==
  { SecretEntry(BackendSecretsName, "rds_credentials_secret_arn",
                Sprintf(<<"%v">>, <<Attr(hh["database.CredentialsSecret"], "SecretArn")>>)),
    SecretEntry(BackendSecretsName, "bedrock_knowledge_base_role_arn",
                Sprintf(<<"%v">>, <<Attr(hh["bedrock.KnowledgeBaseRole"], "RoleArn")>>)),
    SecretEntry(BackendSecretsName, "cognito_client_id",
                Sprintf(<<"%v">>, <<ss["cognito.ClientID"]>>)) }

BackendSecrets(hh, ss) ==
  { SecretEntry(BackendSecretsName, "rds_credentials_secret_arn",
                Sprintf(<<"%v">>, <<Attr(hh["database.CredentialsSecret"], "SecretArn")>>)),
    SecretEntry(BackendSecretsName, "bedrock_knowledge_base_role_arn",
                Sprintf(<<"%v">>, <<Attr(hh["bedrock.KnowledgeBaseRole"], "RoleArn")>>)),
    SecretEntry(BackendSecretsName, "bedrock_agent_role_arn",
                Sprintf(<<"%v">>, <<Attr(hh["bedrock.AgentRole"], "RoleArn")>>)),
    SecretEntry(BackendSecretsName, "cognito_client_id",
                Sprintf(<<"%v">>, <<ss["cognito.ClientID"]>>)) }

FrontendSecrets(ss) ==
  { SecretEntry(FrontendSecretsName, "cognito_client_id",
                Sprintf(<<"%v">>, <<ss["cognito.ClientID"]>>)) }

SecretRefs(entries) == UNION {ReadRefs(e.value) : e \in entries}

SecretParameterDecls(hh, ss) ==
  << Decl("BackendSecrets", "AWS::SecretsManager::Secret", BackendSecretsName,
          SecretRefs(BackendSecrets(hh, ss))),
     Decl("FrontendSecrets", "AWS::SecretsManager::Secret", FrontendSecretsName,
          SecretRefs(FrontendSecrets(ss))) >>

createConfigurationStores ==
  /\ AtCall("createConfigurationStores")
  /\ pc' = pc + 1
  /\ called' = Append(called, "createConfigurationStores")
  /\ \E order \in IterationOrders(AllParams(h, s, account, region)) :
       /\ iter' = [i \in 1..Len(order) |-> Flat(order[i].name)]
       /\ decls' = decls \o NonSecretParameterDecls(order) \o SecretParameterDecls(h, s)
       /\ paramStore' = paramStore \cup Range(order)
  /\ secretStore' = secretStore \cup BackendSecrets(h, s) \cup FrontendSecrets(s)
  /\ UNCHANGED <<account, region, run, prev, resp, h, s, routes, env, outputs, appStack,
                 props, writes, panicked, mk, sh, sts>>

(***************************************************************************)
(* The end of NewAppStack: the CloudFormation outputs and the returned     *)
(* AppStack.                                                               *)
(***************************************************************************)
Output(key, value, exportName) == [key |-> key, value |-> value, exportName |-> exportName]

CfnOutputs(hh, ss) ==
  { Output("ECRRepositoryURI", Attr(hh["compute.EcrRepo"], "RepositoryUri"),
           "CodeRefactor-ECR-Repository-URI"),
    Output("CognitoUserPoolID", ss["cognito.UserPoolID"], "CodeRefactor-Cognito-UserPool-ID"),
    Output("CognitoUserPoolClientID", ss["cognito.ClientID"], "CodeRefactor-Cognito-Client-ID"),
    Output("APIGatewayURL", ss["apigateway.URL"], "CodeRefactor-API-Gateway-URL"),
    Output("CognitoHostedUIURL", ss["cognito.DomainURL"], "CodeRefactor-Cognito-HostedUI-URL"),
    Output("RDSPostgresCredentialsSecretARN",
           Attr(hh["database.CredentialsSecret"], "SecretArn"),
           "CodeRefactor-RDS-Credentials-Secret-ARN"),
    Output("RDSPostgresInstanceARN", Attr(hh["database.Cluster"], "ClusterArn"),
           "CodeRefactor-RDS-Cluster-ARN"),
    Output("BucketName", ss["storage.Name"], "CodeRefactor-S3-Bucket-Name"),
    Output("BedrockKnowledgeBaseRoleArn", Attr(hh["bedrock.KnowledgeBaseRole"], "RoleArn"),
           "CodeRefactor-Bedrock-KnowledgeBase-Role-ARN"),
    Output("BedrockAgentRoleArn", Attr(hh["bedrock.AgentRole"], "RoleArn"),
           "CodeRefactor-Bedrock-Agent-Role-ARN"),
    Output("FrontendBucketName", ss["frontend.BucketName"], "CodeRefactor-Frontend-Bucket-Name"),
    Output("CloudFrontDistributionID", ss["frontend.DistributionID"],
           "CodeRefactor-CloudFront-Distribution-ID"),
    Output("CloudFrontDistributionDomainName", ss["frontend.DistributionDomainName"],
           "CodeRefactor-CloudFront-Domain-Name") }

ReturnedAppStack(hh, ss, acct, reg) ==
  [ BedrockKnowledgeBaseRole |-> Attr(hh["bedrock.KnowledgeBaseRole"], "RoleArn"),
    BedrockAgentRole |-> Attr(hh["bedrock.AgentRole"], "RoleArn"),
    GitHubActionsRoleARN |-> Attr(hh["githubRole"], "RoleArn"),
    BucketName |-> ss["storage.Name"],
    Account |-> acct,
    Region |-> reg,
    RDSPostgresClusterARN |-> Attr(hh["database.Cluster"], "ClusterArn"),
    RDSPostgresCredentialsSecretARN |-> Attr(hh["database.CredentialsSecret"], "SecretArn"),
    RDSPostgresSchemaEnsureLambdaARN |-> Attr(hh["database.MigrationLambda"], "FunctionArn"),
    APIGatewayURL |-> ss["apigateway.URL"],
    CognitoUserPoolID |-> ss["cognito.UserPoolID"],
    CognitoUserPoolClientID |-> ss["cognito.ClientID"],
    CognitoHostedUIURL |->
      Sprintf(<<"https://", "%s", ".auth.", "%s", ".amazoncognito.com">>,
              <<ss["cognito.DomainURL"], reg>>),
    FrontendBucketName |-> ss["frontend.BucketName"],
    CloudFrontDistributionID |-> ss["frontend.DistributionID"],
    CloudFrontDistributionDomainName |-> ss["frontend.DistributionDomainName"] ]

EmitOutputsAndReturn ==
  /\ Step("outputs")
  /\ outputs' = CfnOutputs(h, s)
  /\ appStack' = ReturnedAppStack(h, s, account, region)
  /\ UNCHANGED <<h, s, decls, routes, env, paramStore, secretStore, iter, props, writes>>

(***************************************************************************)
(* A panic inside NewAppStack.  Every declaration call goes through the     *)
(* jsii runtime, which panics when the call fails, and getThisFileDir       *)
(* panics when runtime.Caller cannot resolve the file; no function of the   *)
(* package recovers.  The declarations made before the failing call stay in *)
(* the construct tree of the process, the builder does not return, and      *)
(* NewAppStack does not go on.                                              *)
(***************************************************************************)
\* The declarations a builder call makes, in order.
DeclsOf(builder, hh, ss, acct, reg, order) ==
  CASE builder = "createNetworkingResources" -> NetworkingDecls
    [] builder = "createStorageResources" -> StorageDecls(acct, reg)
    [] builder = "createDatabaseResources" -> DatabaseDecls(hh)
    [] builder = "createCognitoResources" -> CognitoDecls(acct)
    [] builder = "createBedrockResources" -> BedrockDecls(hh)
    [] builder = "createComputeResources" -> ComputeDecls(hh, ss, reg)
    [] builder = "createAPIGatewayResources" -> APIGatewayDecls(hh)
    [] builder = "createFrontendResources" -> FrontendDecls(acct, reg)
    [] builder = "createGitHubActionsRole" -> GitHubActionsRoleDecls(hh, ss)
    [] builder = "createConfigurationStores" ->
         NonSecretParameterDecls(order) \o SecretParameterDecls(hh, ss)
    [] OTHER -> <<>>

\* The keys of the CloudFormation outputs, in the order NewAppStack emits them.
OutputOrder ==
  << "ECRRepositoryURI", "CognitoUserPoolID", "CognitoUserPoolClientID", "APIGatewayURL",
     "CognitoHostedUIURL", "RDSPostgresCredentialsSecretARN", "RDSPostgresInstanceARN",
     "BucketName", "BedrockKnowledgeBaseRoleArn", "BedrockAgentRoleArn",
     "FrontendBucketName", "CloudFrontDistributionID", "CloudFrontDistributionDomainName" >>

\* The panic of the call at position pc, after k of its declarations (k of the
\* outputs, for the last step) have been made.
Panic ==
  /\ panicked = Nil
  /\ pc <= Len(NewAppStackOrder)
  /\ panicked' = NewAppStackOrder[pc]
  /\ IF NewAppStackOrder[pc] = "outputs"
     THEN /\ \E k \in 0..(Len(OutputOrder) - 1) :
               outputs' = {o \in CfnOutputs(h, s) :
                             \E i \in 1..k : OutputOrder[i] = o.key}
          /\ UNCHANGED decls
     ELSE /\ \E order \in IterationOrders(AllParams(h, s, account, region)) :
               LET ds == DeclsOf(NewAppStackOrder[pc], h, s, account, region, order)
               IN \E k \in 0..(Len(ds) - 1) : decls' = decls \o SubSeq(ds, 1, k)
          /\ UNCHANGED outputs
  /\ UNCHANGED <<account, region, pc, called, h, s, routes, env, paramStore, secretStore,
                 appStack, iter, run, prev, resp, props, writes, mk, sh, sts>>

(***************************************************************************)
(* A `make destroy` that succeeds, followed by `make deploy`: the graph is *)
(* torn down and NewAppStack runs again from a clean state, for the same   *)
(* account and region.  The summary of the graph just torn down is kept    *)
(* for comparison.  The recipe of the destroy target itself, with the      *)
(* failures of its commands, is SpecDestroy below.                         *)
(***************************************************************************)
PhysicalNames(ds) == {<<ds[i].id, Flat(ds[i].name)>> : i \in 1..Len(ds)}

Summary(ds, order) == [count |-> Len(ds), names |-> PhysicalNames(ds), order |-> order]

TeardownAndRebuild ==
  /\ Done
  /\ run < MaxRuns
  /\ run' = run + 1
  /\ prev' = Summary(decls, iter)
  /\ pc' = 1
  /\ called' = <<>>
  /\ h' = [f \in HandleFields |-> Nil]
  /\ s' = [f \in StringFields |-> <<>>]
  /\ decls' = <<>>
  /\ routes' = {}
  /\ env' = {}
  /\ paramStore' = {}
  /\ secretStore' = {}
  /\ outputs' = {}
  /\ appStack' = <<>>
  /\ iter' = <<>>
  /\ resp' = <<>>
  /\ props' = [id \in {} |-> <<>>]
  /\ writes' = {}
  /\ sts' = <<>>
  /\ UNCHANGED <<account, region, panicked, mk, sh>>

(***************************************************************************)
(* The recipe of the Makefile's destroy target, line by line.  make runs   *)
(* each line in a shell of its own and stops with status 2 at the first    *)
(* line that exits with a status other than 0; `|| true` gives a line the  *)
(* status 0 whatever its command did.  A run acts on the deployed stack,   *)
(* on the secret code-refactor-db-secret and on the tagged network         *)
(* interfaces in state `available`; the graph-construction process is not  *)
(* running meanwhile.                                                      *)
(***************************************************************************)
Enis == 1..MaxEnis

stackVars ==
  <<account, region, pc, called, h, s, decls, routes, env, paramStore, secretStore,
    outputs, appStack, iter, run, prev, resp, props, writes, panicked, sts>>

\* The deployed state a run of the target may find.
InitDestroy ==
  /\ InitStack
  /\ \E secret \in BOOLEAN, enis \in SUBSET Enis :
       mk = [MkIdle EXCEPT !.stack = TRUE, !.secret = secret, !.enis = enis]
  /\ sh = ShIdle

\* `make destroy` is invoked: @echo "Destroying infrastructure..."
MakeDestroy ==
  /\ mk.line = 0
  /\ mk.n < MaxDestroys
  /\ mk' = [mk EXCEPT !.line = 1, !.exit = "running", !.attempted = <<>>, !.failed = {},
                       !.n = @ + 1]
  /\ UNCHANGED <<stackVars, sh>>

\* @cdk destroy --all --force: it deletes the stack, and with it the secret, or
\* fails and leaves the stack; either way the functions' network interfaces may
\* remain for a while.  A failure ends the run of make.
CdkDestroy ==
  /\ mk.line = 1
  /\ \E ok \in BOOLEAN, left \in SUBSET Enis, secret \in BOOLEAN :
       /\ mk.stack \/ left \subseteq mk.enis
       /\ secret => mk.secret
       /\ mk' = IF ok
                THEN [mk EXCEPT !.line = 2, !.stack = FALSE, !.secret = secret,
                                !.enis = left,
                                !.attempted = Append(@, "cdk destroy")]
                ELSE [mk EXCEPT !.line = 0, !.exit = "2", !.enis = left,
                                !.secret = secret,
                                !.attempted = Append(@, "cdk destroy"),
                                !.failed = @ \cup {"cdk destroy"}]
  /\ UNCHANGED <<stackVars, sh>>

\* @aws secretsmanager delete-secret --secret-id code-refactor-db-secret
\*    --force-delete-without-recovery || true
DeleteSecret ==
  /\ mk.line = 2
  /\ \E ok \in BOOLEAN :
       /\ ok => mk.secret
       /\ mk' = [mk EXCEPT !.line = 3,
                           !.secret = IF ok THEN FALSE ELSE @,
                           !.attempted = Append(@, "delete-secret"),
                           !.failed = IF ok THEN @ ELSE @ \cup {"delete-secret"}]
  /\ UNCHANGED <<stackVars, sh>>

\* @echo "Cleaning up any remaining ENIs..." and
\* @aws ec2 describe-network-interfaces ... | xargs -r -n1 aws ec2
\*    delete-network-interface --network-interface-id || true
\* Each interface listed is deleted or its deletion fails; when the listing fails
\* none is deleted.
CleanupENIs ==
  /\ mk.line = 3
  /\ \E remaining \in SUBSET mk.enis :
       mk' = [mk EXCEPT !.line = 4, !.enis = remaining,
                        !.attempted = Append(@, "eni-cleanup"),
                        !.failed = IF remaining = {} THEN @ ELSE @ \cup {"eni-cleanup"}]
  /\ UNCHANGED <<stackVars, sh>>

\* @echo "Infrastructure destruction done.": the run ends with status 0.
DestroyDone ==
  /\ mk.line = 4
  /\ mk' = [mk EXCEPT !.line = 0, !.exit = "0"]
  /\ UNCHANGED <<stackVars, sh>>

NextDestroy ==
  \/ MakeDestroy
  \/ CdkDestroy
  \/ DeleteSecret
  \/ CleanupENIs
  \/ DestroyDone

SpecDestroy == InitDestroy /\ [][NextDestroy]_vars

(***************************************************************************)
(* setup-auth.sh, command by command.  The script runs under `set -e`: it  *)
(* exits, with the status of the command, at the first simple command that *)
(* fails outside the condition of an `if` and outside a `||` list; an      *)
(* assignment VAR=$(command) fails with the status of the command.  The    *)
(* aws CLI ends with one of the statuses 253, 254 and 255 when a call      *)
(* fails.  A run acts on the default user of the user pool, which is       *)
(* absent, has a temporary password or has a permanent password.  The      *)
(* messages are the script's, without their leading symbol.                *)
(***************************************************************************)
AwsFailureStatuses == {"253", "254", "255"}

Echo(script, message) == [script EXCEPT !.out = Append(@, message)]

\* exit with a status: explicitly, by `set -e` or at the end of the script
Exit(script, status) == [script EXCEPT !.line = 0, !.exit = status]

\* A variant of the effect of `set -e` in which a failing command does not end
\* the script.
ErrexitOff(script, step, status, nextLine) ==
  [script EXCEPT !.failed = @ \cup {step}, !.line = nextLine]

\* The effect of `set -e` on a simple command that fails with a status.
Errexit(script, step, status, nextLine) ==
  Exit([script EXCEPT !.failed = @ \cup {step}], status)

InitSetupAuth ==
  /\ InitStack
  /\ mk = MkIdle
  /\ sh = ShIdle

\* ./setup-auth.sh is started.
RunSetupAuth ==
  /\ sh.line = 0
  /\ sh.n < MaxSetups
  /\ sh' = [sh EXCEPT !.line = 1, !.exit = "running", !.out = <<>>, !.failed = {},
                       !.token = FALSE, !.userAtStart = sh.user, !.n = @ + 1,
                       !.prevEnd = IF sh.n = 0 THEN <<>>
                                   ELSE [user |-> sh.user, exit |-> sh.exit,
                                         token |-> sh.token]]
  /\ UNCHANGED <<stackVars, mk>>

\* Lines 8-17: the checks for aws and jq.
CheckPrerequisites ==
  /\ sh.line = 1
  /\ \E aws \in BOOLEAN, jq \in BOOLEAN :
       sh' = IF ~aws
             THEN Exit(Echo(sh, "AWS CLI not found. Please install AWS CLI first."), "1")
             ELSE IF ~jq
             THEN Exit(Echo(sh, "jq not found. Please install jq first."), "1")
             ELSE [sh EXCEPT !.line = 2]
  /\ UNCHANGED <<stackVars, mk>>

\* Lines 19-35: STACK_OUTPUTS=$(aws cloudformation describe-stacks ...), the test of
\* $? that follows it, and the three jq look-ups.  When the call fails, `set -e`
\* ends the script at the assignment, before the test of $? is reached.
GetStackOutputs ==
  /\ sh.line = 2
  /\ \E ok \in BOOLEAN, status \in AwsFailureStatuses :
       sh' = IF ok
             THEN [Echo(sh, "Configuration loaded:") EXCEPT !.line = 3]
             ELSE LET after == Errexit(sh, "describe-stacks", status, 2)
                  IN IF after.line = 0 THEN after
                     ELSE Exit(Echo(after, "Failed to get stack outputs. Make sure the CodeRefactorInfra stack is deployed."),
                               "1")
  /\ UNCHANGED <<stackVars, mk>>

\* Lines 47-58: admin-create-user as the condition of an `if`.  The call fails
\* when the user exists, and may fail for any other reason.
CreateUser ==
  /\ sh.line = 3
  /\ \E ok \in BOOLEAN :
       /\ ok => sh.user = "absent"
       /\ sh' = IF ok
                THEN [Echo(sh, "User created successfully")
                        EXCEPT !.user = "temporary", !.line = 4]
                ELSE [Echo(sh, "User might already exist, continuing...")
                        EXCEPT !.failed = @ \cup {"create-user"}, !.line = 4]
  /\ UNCHANGED <<stackVars, mk>>

\* Lines 60-68: admin-set-user-password --permanent and the message after it.  The
\* call fails when the user does not exist, and may fail for any other reason.
SetPermanentPassword ==
  /\ sh.line = 4
  /\ \E ok \in BOOLEAN, status \in AwsFailureStatuses :
       /\ ok => sh.user # "absent"
       /\ sh' = IF ok
                THEN [Echo(sh, "Password set to permanent")
                        EXCEPT !.user = "permanent", !.line = 5]
                ELSE LET after == Errexit(sh, "set-password", status, 5)
                     IN IF after.line = 0 THEN after
                        ELSE Echo(after, "Password set to permanent")
  /\ UNCHANGED <<stackVars, mk>>

\* Lines 70-78: TOKEN_RESPONSE=$(aws cognito-idp admin-initiate-auth ...) and the
\* look-up of the ID token.  The call fails unless the user can sign in with the
\* permanent password and the client allows the flow.
GetToken ==
  /\ sh.line = 5
  /\ \E ok \in BOOLEAN, status \in AwsFailureStatuses :
       /\ ok => sh.user = "permanent"
       /\ sh' = IF ok
                THEN [sh EXCEPT !.token = TRUE, !.line = 6]
                ELSE Errexit(sh, "initiate-auth", status, 6)
  /\ UNCHANGED <<stackVars, mk>>

\* Lines 80-111: the two curl calls, each with a `||` fallback, and the report,
\* which prints the ID token.
TestAndReport ==
  /\ sh.line = 6
  /\ sh' = Exit(Echo(Echo(sh, "Setup complete!"),
                      IF sh.token THEN "Your current ID Token: <token>"
                      ELSE "Your current ID Token: null"),
                 "0")
  /\ UNCHANGED <<stackVars, mk>>

NextSetupAuth ==
  \/ RunSetupAuth
  \/ CheckPrerequisites
  \/ GetStackOutputs
  \/ CreateUser
  \/ SetPermanentPassword
  \/ GetToken
  \/ TestAndReport

SpecSetupAuth == InitSetupAuth /\ [][NextSetupAuth]_vars

(***************************************************************************)
(* A request to the deployed API.  The gateway picks the resource (a       *)
(* literal path before the greedy proxy), then the method (the request's   *)
(* method before ANY), applies the route's authorization and integration.  *)
(* The gateway keeps no state between requests, so one request is observed *)
(* per deployment.                                                         *)
(***************************************************************************)
Methods == {"GET", "POST", "OPTIONS"}

Paths == {"/", "/health", "/swagger", "/auth", "/projects", "/health/live"}

Headers == {"none", "bearer-valid"}

ResourceFor(rs, path) ==
  IF \E r \in rs : r.path = path THEN path ELSE "/{proxy+}"

MethodFor(rs, method, path) ==
  LET res == ResourceFor(rs, path)
      exact == {r \in rs : r.path = res /\ r.method = method}
      any == {r \in rs : r.path = res /\ r.method = "ANY"}
  IN IF exact # {} THEN exact ELSE any

\* The application behind the load balancer answers its health-check path with 200.
Backend(path) == IF path = "/health" THEN "200" ELSE "upstream"

Status(rs, method, path, header) ==
  LET m == MethodFor(rs, method, path)
  IN IF m = {} THEN "403"
     ELSE LET r == CHOOSE x \in m : TRUE
          IN IF r.auth = "COGNITO" /\ header = "none" THEN "401"
             ELSE IF r.integration = "HTTP_PROXY" THEN Backend(path)
             ELSE IF r.integration = "MOCK_CORS" THEN "204"
             ELSE "mock"

HandleRequest ==
  /\ Done
  /\ resp = <<>>
  /\ \E method \in Methods, path \in Paths, header \in Headers :
       resp' = [method |-> method, path |-> path, header |-> header,
                status |-> Status(routes, method, path, header), via |-> "gateway"]
  /\ UNCHANGED <<account, region, pc, called, h, s, decls, routes, env, paramStore,
                 secretStore, outputs, appStack, iter, run, prev, props, writes, panicked,
                 mk, sh, sts>>
(***************************************************************************)
(* A request sent straight to the load balancer, at the DNS name of        *)
(* CodeRefactorALB and the port of its listener.  An internet-facing load  *)
(* balancer in public subnets has public addresses, and a listener added   *)
(* without `Open: false` lets every source in; the listener forwards to    *)
(* the target group of the service whatever the request's headers are.  A  *)
(* load balancer that is not internet-facing cannot be reached from        *)
(* outside the VPC.                                                        *)
(***************************************************************************)
DirectStatus(alb, path) == IF alb.internetFacing THEN Backend(path) ELSE "unreachable"

DirectRequest ==
  /\ Done
  /\ resp = <<>>
  /\ \E method \in Methods, path \in Paths, header \in Headers :
       resp' = [method |-> method, path |-> path, header |-> header,
                status |-> DirectStatus(props["CodeRefactorALB"], path), via |-> "alb"]
  /\ UNCHANGED <<account, region, pc, called, h, s, decls, routes, env, paramStore,
                 secretStore, outputs, appStack, iter, run, prev, props, writes, panicked,
                 mk, sh, sts>>

(***************************************************************************)
(* The deployed CodeRefactor-GitHubActions-Role as IAM evaluates it.  A    *)
(* workflow run presents the OIDC token GitHub issued to it; STS lets it   *)
(* assume the role when the token comes from the federated provider and    *)
(* meets every condition of the trust policy: StringEquals compares whole  *)
(* strings, StringLike takes "*" in the pattern for any run of characters. *)
(* With the role's credentials the workflow reads a secret; the read is    *)
(* allowed when a statement names the action and a resource pattern that   *)
(* matches the ARN of the secret.  A string is matched token by token; the *)
(* tokens of a subject are "repo:", the owner, "/", the repository, ":"    *)
(* and the ref, none of which holds a separator of its own.                *)
(***************************************************************************)
RECURSIVE StringLike(_, _)
StringLike(pattern, str) ==
  IF pattern = <<>> THEN str = <<>>
  ELSE IF Head(pattern) = "*"
       THEN \/ StringLike(Tail(pattern), str)
            \/ str # <<>> /\ StringLike(pattern, Tail(str))
       ELSE /\ str # <<>>
            /\ Head(str) = Head(pattern)
            /\ StringLike(Tail(pattern), Tail(str))

\* The claims of an OIDC token of a workflow run.
WebIdentityToken(issuer, aud, owner, repo, ref) ==
  [ issuer |-> issuer, aud |-> <<aud>>, sub |-> <<"repo:", owner, "/", repo, ":", ref>> ]

WebIdentityTokens ==
  { WebIdentityToken(issuer, aud, owner, repo, ref) :
      issuer \in {"token.actions.githubusercontent.com", "gitlab.com"},
      aud \in {"sts.amazonaws.com", "https://github.com/kazemisoroush"},
      owner \in {"kazemisoroush", "octocat"},
      repo \in {"code-refactoring-tool", "code-refactoring-ui", "code-refactoring-infra"},
      ref \in {"ref:refs/heads/main", "pull_request"} }

\* The trust policy of the role admits the token.
Trusts(role, acct, token) ==
  /\ role.federated = OidcProviderArn(acct, token.issuer)
  /\ Flat(token.aud) = Flat(role.stringEquals.aud)
  /\ \E pattern \in role.stringLike.sub : StringLike(pattern, token.sub)

\* The ARN of a secret: Secrets Manager appends "-" and six characters to the name.
SecretArn(acct, reg, name) ==
  <<"arn:aws:secretsmanager:">> \o reg \o <<":">> \o acct \o <<":secret:">> \o name
    \o <<"-", "AbCdEf">>

\* The inline policies of the role allow the action on the resource.
Allows(role, action, resource) ==
  \E st \in role.inlinePolicies :
    /\ action \in st.actions
    /\ \E pattern \in st.resources : StringLike(pattern, resource)

\* The names of the secrets the stack declares.
SecretNames ==
  {decls[i].name : i \in {j \in 1..Len(decls) : decls[j].type = "AWS::SecretsManager::Secret"}}

AssumeRoleWithWebIdentity ==
  /\ Done
  /\ sts = <<>>
  /\ \E token \in WebIdentityTokens :
       sts' = [ call |-> "AssumeRoleWithWebIdentity", token |-> token, secret |-> <<>>,
                result |-> IF Trusts(props["GitHubActionsRole"], account, token)
                           THEN "Assumed" ELSE "AccessDenied" ]
  /\ UNCHANGED <<account, region, pc, called, h, s, decls, routes, env, paramStore,
                 secretStore, outputs, appStack, iter, run, prev, resp, props, writes,
                 panicked, mk, sh>>

GetSecretValue ==
  /\ sts # <<>>
  /\ sts.call = "AssumeRoleWithWebIdentity"
  /\ sts.result = "Assumed"
  /\ \E name \in SecretNames :
       sts' = [ call |-> "GetSecretValue", token |-> sts.token, secret |-> name,
                result |-> IF Allows(props["GitHubActionsRole"], "secretsmanager:GetSecretValue",
                                     SecretArn(account, region, name))
                           THEN "Allowed" ELSE "AccessDenied" ]
  /\ UNCHANGED <<account, region, pc, called, h, s, decls, routes, env, paramStore,
                 secretStore, outputs, appStack, iter, run, prev, resp, props, writes,
                 panicked, mk, sh>>

(***************************************************************************)
(* One invocation of NewAppStack.  The function runs in a single goroutine *)
(* and takes no lock and waits for no input: a call that is due is made,   *)
(* and it returns, which moves NewAppStack to its next call, or panics.    *)
(***************************************************************************)
\* The call that is due returns.
CallReturns ==
  /\ pc <= Len(NewAppStackOrder)
  /\ AtCall(NewAppStackOrder[pc])
  /\ pc' = pc + 1

Call ==
  \/ createNetworkingResources
  \/ createStorageResources
  \/ createDatabaseResources
  \/ createCognitoResources
  \/ createBedrockResources
  \/ createComputeResources
  \/ createAPIGatewayResources
  \/ createFrontendResources
  \/ createGitHubActionsRole
  \/ createConfigurationStores
  \/ EmitOutputsAndReturn

NextNewAppStack ==
  \/ Call
  \/ Panic

SpecNewAppStack == Init /\ [][NextNewAppStack]_vars /\ WF_pc(CallReturns)

\* A deployment and a request of a client, to the gateway or to the load balancer.
NextClients ==
  \/ Call
  \/ HandleRequest
  \/ DirectRequest

SpecClients == Init /\ [][NextClients]_vars

\* A deployment and a workflow run that asks for the role and reads a secret.
NextWorkflow ==
  \/ Call
  \/ AssumeRoleWithWebIdentity
  \/ GetSecretValue

SpecWorkflow == Init /\ [][NextWorkflow]_vars

(***************************************************************************)
(* Properties.                                                             *)
(***************************************************************************)
PublicGets == {<<"GET", "/health">>, <<"GET", "/swagger">>, <<"GET", "/auth">>}

Unguarded == {<<r.method, r.path>> : r \in {x \in routes : x.auth = "NONE"}}

\* C1: once createAPIGatewayResources has run, the routes of the routing table
\* that carry no authentication guard are exactly GET /health, GET /swagger and
\* GET /auth, and every other declared method, the implicitly created ones
\* included, carries the Cognito authorizer.
C1_OnlyThreeRoutesUnguarded ==
  Returned("createAPIGatewayResources") =>
    /\ Unguarded = PublicGets
    /\ \A r \in routes : <<r.method, r.path>> \notin PublicGets => r.auth = "COGNITO"

C3_ReferencesDeclaredEarlier ==
  /\ \A i \in 1..Len(decls) : \A r \in decls[i].refs :
       /\ r # Nil
       /\ \E j \in 1..(i - 1) : decls[j].id = r
  /\ \A e \in paramStore \cup secretStore :
       /\ e.value # <<>>
       /\ \A r \in RefsOf(e.value) :
            /\ r # Nil
            /\ \E j \in 1..Len(decls) : decls[j].id = r /\ decls[j].type # "AWS::SSM::Parameter"

C3_Witness ==
  /\ Done
  /\ \E i \in 1..Len(decls) :
       /\ decls[i].id = "RefactorContainer"
       /\ {"BedrockAgentRole", "BedrockKnowledgeBaseRole", "CodeRefactorUserPool"}
            \subseteq decls[i].refs
  /\ \E e \in paramStore : RefsOf(e.value) # {}

\* The classes of the partial order network -> storage/database -> identity ->
\* compute -> edge -> frontend -> configuration.
BuilderClass ==
  [ createNetworkingResources |-> 1, createStorageResources |-> 2,
    createDatabaseResources |-> 2, createCognitoResources |-> 3,
    createComputeResources |-> 4, createAPIGatewayResources |-> 5,
    createFrontendResources |-> 6, createConfigurationStores |-> 7 ]

\* C4: no builder of a later class has run unless every builder of each earlier
\* class has returned before it.
C4_BuildersFollowPartialOrder ==
  \A j \in 1..Len(called) :
    called[j] \in DOMAIN BuilderClass =>
      \A b \in DOMAIN BuilderClass :
        BuilderClass[b] < BuilderClass[called[j]] =>
          \E i \in 1..(j - 1) : called[i] = b

C4_Witness ==
  /\ Returned("createConfigurationStores")
  /\ Returned("createFrontendResources")
  /\ Len(called) >= 10

ConfigSecretNames == {BackendSecretsName, FrontendSecretsName}

ConfigSecretEntries == {e \in secretStore : e.secret \in ConfigSecretNames}

\* C5: no value stored in the backend or frontend secret object is the value of
\* a parameter-store record, and no parameter-store value is stored in one of
\* these secret objects.
C5_SecretAndPlainValuesDisjoint ==
  {Flat(e.value) : e \in ConfigSecretEntries} \cap {Flat(e.value) : e \in paramStore} = {}

C5_Witness ==
  /\ Returned("createConfigurationStores")
  /\ Cardinality(paramStore) = 19
  /\ Cardinality(ConfigSecretEntries) = 5

DeclsOfType(type) == {decls[i] : i \in {j \in 1..Len(decls) : decls[j].type = type}}

SecretDecls == DeclsOfType("AWS::SecretsManager::Secret")

RoleArns == {Flat(Attr(d.id, "RoleArn")) : d \in DeclsOfType("AWS::IAM::Role")}

DbCredentialArn == Flat(Attr("CodeRefactorDbSecret", "SecretArn"))

\* C6 as stated: the records in the secret store are exactly role ARNs and the
\* database-credential ARN, and every other record is in the parameter store.
C6_SecretsAreRoleAndCredentialArns ==
  Returned("createConfigurationStores") =>
    /\ {Flat(e.value) : e \in ConfigSecretEntries} \subseteq RoleArns \cup {DbCredentialArn}
    /\ {Flat(e.value) : e \in paramStore} \cap (RoleArns \cup {DbCredentialArn}) = {}

\* C6 as amended: the publisher writes to the secret store exactly the
\* database-credential secret ARN, the knowledge-base and agent role ARNs and the
\* Cognito client ID (the client ID in the backend and in the frontend object);
\* no record of the parameter store holds a role ARN, the credential ARN or the
\* client ID.
C6_SecretStoreContents ==
  Returned("createConfigurationStores") =>
    /\ {<<Flat(e.secret), e.key, Flat(e.value)>> : e \in ConfigSecretEntries}
         = { <<"/code-refactor/backend/secrets", "rds_credentials_secret_arn",
               "${CodeRefactorDbSecret.SecretArn}">>,
             <<"/code-refactor/backend/secrets", "bedrock_knowledge_base_role_arn",
               "${BedrockKnowledgeBaseRole.RoleArn}">>,
             <<"/code-refactor/backend/secrets", "bedrock_agent_role_arn",
               "${BedrockAgentRole.RoleArn}">>,
             <<"/code-refactor/backend/secrets", "cognito_client_id",
               "${CodeRefactorUserPoolClient.UserPoolClientId}">>,
             <<"/code-refactor/frontend/secrets", "cognito_client_id",
               "${CodeRefactorUserPoolClient.UserPoolClientId}">> }
    /\ {Flat(e.value) : e \in paramStore}
         \cap (RoleArns \cup {DbCredentialArn, "${CodeRefactorUserPoolClient.UserPoolClientId}"})
         = {}

C6_Witness ==
  /\ Returned("createConfigurationStores")
  /\ \E e \in ConfigSecretEntries : e.key = "cognito_client_id" /\ e.secret = FrontendSecretsName
  /\ \E e \in paramStore : Flat(e.name) = "/code-refactor/backend/cognito-user-pool-id"

ParamPrefixes ==
  { <<"/", "code", "-", "refactor", "/", "backend", "/">>,
    <<"/", "code", "-", "refactor", "/", "frontend", "/">>,
    <<"/", "code", "-", "refactor", "/", "deployment", "/">> }

ParamKeysUnderPrefixes ==
  \A d \in DeclsOfType("AWS::SSM::Parameter") :
    \E pre \in ParamPrefixes : HasPrefix(d.name, pre)

\* C7 as stated: every parameter key lies under /code-refactor/backend/,
\* /code-refactor/frontend/ or /code-refactor/deployment/, and every secret object
\* the repository declares is named /code-refactor/backend/secrets or
\* /code-refactor/frontend/secrets.
C7_AllSecretsUnderConfigNames ==
  /\ ParamKeysUnderPrefixes
  /\ \A d \in SecretDecls :
       Flat(d.name) \in {"/code-refactor/backend/secrets", "/code-refactor/frontend/secrets"}

\* C7 as amended: every parameter key lies under one of the three prefixes, the
\* secret objects the configuration publisher declares are named
\* /code-refactor/backend/secrets and /code-refactor/frontend/secrets, and the only
\* other secret the repository declares is the database credential secret
\* code-refactor-db-secret, declared by createDatabaseResources.
C7_ConfigurationLayout ==
  /\ ParamKeysUnderPrefixes
  /\ \A e \in paramStore : \E pre \in ParamPrefixes : HasPrefix(e.name, pre)
  /\ \A d \in SecretDecls :
       \/ /\ Flat(d.name) = "code-refactor-db-secret"
          /\ d.id = "CodeRefactorDbSecret"
       \/ /\ Entered("createConfigurationStores")
          /\ Flat(d.name) \in {"/code-refactor/backend/secrets",
                               "/code-refactor/frontend/secrets"}
  /\ Returned("createConfigurationStores") =>
       {Flat(d.name) : d \in SecretDecls}
         = {"code-refactor-db-secret", "/code-refactor/backend/secrets",
            "/code-refactor/frontend/secrets"}

C7_Witness ==
  /\ Returned("createConfigurationStores")
  /\ Cardinality(DeclsOfType("AWS::SSM::Parameter")) = 19
  /\ Cardinality(SecretDecls) = 3

DeclNamed(id) == {Flat(decls[i].name) : i \in {j \in 1..Len(decls) : decls[j].id = id}}

\* C8: the storage bucket is named code-refactor-bucket-A-R and the hosted-domain
\* prefix is code-refactor-A for the account A and region R of the stack; for
\* A = 123456789012 and R = us-east-1 these are
\* code-refactor-bucket-123456789012-us-east-1 and code-refactor-123456789012.
C8_BucketAndDomainNames ==
  /\ Returned("createStorageResources") =>
       /\ DeclNamed("CodeRefactorBucket")
            = {"code-refactor-bucket-" \o Flat(account) \o "-" \o Flat(region)}
       /\ Flat(s["storage.Name"])
            = "code-refactor-bucket-" \o Flat(account) \o "-" \o Flat(region)
       /\ (Flat(account) = "123456789012" /\ Flat(region) = "us-east-1") =>
            DeclNamed("CodeRefactorBucket") = {"code-refactor-bucket-123456789012-us-east-1"}
  /\ Returned("createCognitoResources") =>
       /\ DeclNamed("CodeRefactorUserPoolDomain") = {"code-refactor-" \o Flat(account)}
       /\ Flat(account) = "123456789012" =>
            DeclNamed("CodeRefactorUserPoolDomain") = {"code-refactor-123456789012"}

C8_Witness ==
  /\ Returned("createStorageResources")
  /\ Returned("createCognitoResources")
  /\ Flat(account) = "123456789012"
  /\ Flat(region) = "us-east-1"

\* C9: a second construction from a clean state, for the same account and
\* region, yields the same number of resources with the same logical and physical
\* names as the first, whatever the order in which the parameter map is iterated.
C9_RebuildSameCountAndNames ==
  (Done /\ run > 1) =>
    /\ Len(decls) = prev.count
    /\ PhysicalNames(decls) = prev.names

C9_Witness ==
  /\ Done
  /\ run > 1
  /\ iter # prev.order
  /\ Len(decls) > 19

SpecEnvironmentNames ==
  { "AI_BEDROCK_RDS_POSTGRES_CREDENTIALS_SECRET_ARN", "AI_BEDROCK_RDS_POSTGRES_INSTANCE_ARN",
    "AI_BEDROCK_RDS_POSTGRES_DATABASE_NAME", "AI_BEDROCK_RDS_POSTGRES_SCHEMA_ENSURE_LAMBDA_ARN",
    "AI_BEDROCK_REGION", "AI_BEDROCK_KNOWLEDGE_BASE_SERVICE_ROLE_ARN",
    "AI_BEDROCK_AGENT_SERVICE_ROLE_ARN", "AI_BEDROCK_S3_BUCKET_NAME",
    "COGNITO_USER_POOL_ID", "COGNITO_CLIENT_ID", "COGNITO_REGION",
    "METRICS_NAMESPACE", "METRICS_REGION", "METRICS_SERVICE_NAME",
    "TIMEOUT_SECONDS", "LOG_LEVEL" }

EnvNames == {v.name : v \in env}

\* C10 as stated: the names injected into the application container are exactly
\* the enumerated ones (credentials-secret ARN, cluster ARN, database name,
\* migration-function ARN, region, role ARNs, bucket name, user-directory ID,
\* client ID and region, metrics namespace, region and service name, timeout, log
\* level): each is present and no other name is injected.
C10_EnvironmentIsTheEnumeratedSet ==
  Returned("createComputeResources") => EnvNames = SpecEnvironmentNames

\* C10 as amended: each enumerated name is injected, and the only other names
\* injected are GIT_TOKEN, GIT_AUTHOR, GIT_EMAIL, AI_DEFAULT_PROVIDER,
\* AI_LOCAL_ENABLED and METRICS_ENABLED; each name is injected once.
C10_EnvironmentNames ==
  Returned("createComputeResources") =>
    /\ EnvNames = SpecEnvironmentNames
         \cup {"GIT_TOKEN", "GIT_AUTHOR", "GIT_EMAIL", "AI_DEFAULT_PROVIDER",
               "AI_LOCAL_ENABLED", "METRICS_ENABLED"}
    /\ Cardinality(env) = Cardinality(EnvNames)

C10_Witness ==
  /\ Returned("createComputeResources")
  /\ \E v \in env : v.name = "GIT_TOKEN"
  /\ \E v \in env : v.name = "LOG_LEVEL"

\* The output keys the documentation and the scripts look up in the result of
\* describe-stacks.
DocumentedOutputKeys ==
  { "CognitoUserPoolID", "CognitoUserPoolClientID", "APIGatewayURL", "CognitoHostedUIURL",
    "GitHubActionsRoleARN" }

OutputKeys == {o.key : o \in outputs}

\* C11: once NewAppStack has returned, every output key that the documentation
\* and the setup scripts read with describe-stacks (CognitoUserPoolID,
\* CognitoUserPoolClientID, APIGatewayURL, CognitoHostedUIURL,
\* GitHubActionsRoleARN) is among the emitted CloudFormation outputs.
C11_DocumentedOutputKeysEmitted ==
  Done => DocumentedOutputKeys \subseteq OutputKeys

\* The value of an output once the stack is deployed: the DomainName of a user-pool
\* domain declared with a Cognito domain prefix is that prefix.
Deployed(ds, str) ==
  IF str = Attr("CodeRefactorUserPoolDomain", "DomainName")
       /\ \E d \in Range(ds) : d.id = "CodeRefactorUserPoolDomain"
  THEN (CHOOSE d \in Range(ds) : d.id = "CodeRefactorUserPoolDomain").name
  ELSE str

HostedUIURL(acct, reg) ==
  "https://code-refactor-" \o Flat(acct) \o ".auth." \o Flat(reg) \o ".amazoncognito.com"

\* C12: for every account A and region R, the value of the CognitoHostedUIURL
\* stack output is the full hosted-login URL
\* https://code-refactor-A.auth.R.amazoncognito.com.
C12_HostedUIOutputIsFullURL ==
  Done =>
    /\ \E o \in outputs : o.key = "CognitoHostedUIURL"
    /\ \A o \in outputs :
         o.key = "CognitoHostedUIURL" =>
           Flat(Deployed(decls, o.value)) = HostedUIURL(account, region)

MigrationRoleGrants == props["DbMigrationLambdaRole"]

DataApiActions ==
  { "rds-data:ExecuteStatement", "rds-data:BatchExecuteStatement",
    "rds-data:BeginTransaction", "rds-data:CommitTransaction",
    "rds-data:RollbackTransaction", "rds-data:ExecuteSql", "rds-data:DescribeTable" }

SecretReadActions == {"secretsmanager:GetSecretValue", "secretsmanager:DescribeSecret"}

ClusterArn == "${" \o RDSPostgresDatabaseName \o ".ClusterArn}"

\* The policy statements of the migration role are the data-API statement on the
\* cluster's ARN and the read statement on the credential secret's ARN.
MigrationRoleStatements ==
  MigrationRoleGrants.statements
    = { Statement(DataApiActions, {ClusterArn}),
        Statement(SecretReadActions, {DbCredentialArn}) }

\* C13 as stated: the migration role holds the data-API permissions scoped to the
\* cluster's ARN and the permission to read the credential secret, and no other
\* grant.
C13_OnlyDataApiAndSecretRead ==
  Returned("createDatabaseResources") =>
    /\ MigrationRoleStatements
    /\ MigrationRoleGrants.managedPolicies = {}

\* C13 as amended: the migration role holds the seven data-API actions on the
\* cluster's ARN only, the two read actions on the credential secret's ARN only,
\* and the two AWS-managed execution policies AWSLambdaBasicExecutionRole and
\* AWSLambdaVPCAccessExecutionRole; it holds nothing else.
C13_MigrationRoleGrants ==
  Returned("createDatabaseResources") =>
    /\ MigrationRoleStatements
    /\ MigrationRoleGrants.managedPolicies
         = { "service-role/AWSLambdaBasicExecutionRole",
             "service-role/AWSLambdaVPCAccessExecutionRole" }
    /\ \A st \in MigrationRoleGrants.statements : "*" \notin st.resources

C13_Witness ==
  /\ Returned("createDatabaseResources")
  /\ \E w \in writes : w.by = "setupMigrationLambdaPermissions" /\ w.what = "AddToPolicy"
  /\ Cardinality(MigrationRoleGrants.statements) = 2

\* The declarations that refer to the database cluster: security-group rules,
\* policies, functions, roles.
RefersToCluster(d) == RDSPostgresDatabaseName \in d.refs

\* C14: the credential secret is declared before the database cluster, and the
\* cluster before the migration function and before every security-group rule or
\* permission that refers to the cluster.
C14_SecretThenClusterThenDependents ==
  /\ \A i \in 1..Len(decls) :
       decls[i].id = RDSPostgresDatabaseName =>
         \E j \in 1..(i - 1) : decls[j].id = "CodeRefactorDbSecret"
  /\ \A k \in 1..Len(decls) :
       (decls[k].id = "DbMigrationLambda" \/ RefersToCluster(decls[k])) =>
         \E i \in 1..(k - 1) : decls[i].id = RDSPostgresDatabaseName

C14_Witness ==
  /\ Returned("createDatabaseResources")
  /\ \E k \in 1..Len(decls) : decls[k].id = "DbMigrationLambda"
  /\ \E k \in 1..Len(decls) :
       decls[k].type = "AWS::EC2::SecurityGroupIngress" /\ RefersToCluster(decls[k])
  /\ \E k \in 1..Len(decls) :
       decls[k].type = "AWS::IAM::Policy" /\ RefersToCluster(decls[k])

Builders ==
  { "createNetworkingResources", "createStorageResources", "createDatabaseResources",
    "createCognitoResources", "createBedrockResources", "createComputeResources",
    "createAPIGatewayResources", "createFrontendResources", "createGitHubActionsRole",
    "createConfigurationStores" }

\* The handle fields of the struct each builder returns.
FieldsOf ==
  [ createNetworkingResources |-> {"networking.Vpc", "networking.SecretsManagerEndpoint"},
    createStorageResources |-> {"storage.Bucket"},
    createDatabaseResources |->
      {"database.Cluster", "database.CredentialsSecret", "database.MigrationLambda",
       "database.MigrationLambdaRole", "database.MigrationLambdaSG"},
    createCognitoResources |->
      {"cognito.UserPool", "cognito.UserPoolClient", "cognito.UserPoolDomain"},
    createBedrockResources |-> {"bedrock.KnowledgeBaseRole", "bedrock.AgentRole"},
    createComputeResources |->
      {"compute.Cluster", "compute.TaskDef", "compute.Service", "compute.EcrRepo",
       "compute.LogGroup"},
    createAPIGatewayResources |-> {"apigateway.RestAPI", "apigateway.LoadBalancer"},
    createFrontendResources |-> {"frontend.Bucket", "frontend.CloudFrontDistribution"},
    createGitHubActionsRole |-> {"githubRole"},
    createConfigurationStores |-> {} ]

NoBuilderTwice == \A i, j \in 1..Len(called) : called[i] = called[j] => i = j

EveryBuilderOnce == Done => Range(called) = Builders \cup {"outputs"}

\* C15 as stated: every builder executes exactly once, and each component is
\* either not yet declared or declared: once its builder has returned, every
\* handle of the component is set, so that no later builder sees it partially
\* declared.  (The interface endpoint of the networking component, which the
\* builder no longer declares, is left aside.)
C15_ExactlyOnceTwoStates ==
  /\ NoBuilderTwice
  /\ EveryBuilderOnce
  /\ \A b \in Builders :
       \A f \in FieldsOf[b] \ {"networking.SecretsManagerEndpoint"} :
         h[f] # Nil <=> Returned(b)

\* C15 as amended: every builder executes exactly once in an invocation that
\* runs to its end, and every handle of a component is set exactly from the
\* return of its builder on, with two exceptions: the Service handle of the
\* compute component is nil when createComputeResources returns and is set
\* only by the later createAPIGatewayResources, and the interface endpoint of
\* the networking component is nil throughout.
C15_ExactlyOnceServiceLate ==
  /\ NoBuilderTwice
  /\ EveryBuilderOnce
  /\ \A b \in Builders :
       \A f \in FieldsOf[b] \ {"networking.SecretsManagerEndpoint", "compute.Service"} :
         h[f] # Nil <=> Returned(b)
  /\ h["compute.Service"] # Nil <=> Returned("createAPIGatewayResources")
  /\ h["networking.SecretsManagerEndpoint"] = Nil

C15_Witness ==
  /\ Returned("createComputeResources")
  /\ ~Returned("createAPIGatewayResources")
  /\ h["compute.Service"] = Nil
  /\ h["compute.TaskDef"] # Nil

\* The functions that make declarations and return the handles.
BuilderFunctions == Builders \cup {"createMigrationLambda"}

\* C16 as stated: no builder function has written a field of, or added a rule or
\* attachment to, a handle it received as an argument.
C16_BuildersLeaveArgumentsUnchanged ==
  {w \in writes : w.by \in BuilderFunctions} = {}

ClusterIngressRules ==
  {d \in DeclsOfType("AWS::EC2::SecurityGroupIngress") : RefersToCluster(d)}

\* C16 as amended: the writes to received handles are exactly these:
\* createMigrationLambda adds the ingress rule for the migration function's
\* security group to the cluster it receives, setupMigrationLambdaPermissions adds
\* managed policies and policy statements to the role it receives, and
\* createAPIGatewayResources adds the ingress rule for the service's security
\* group to the database cluster and sets the Service field of the compute
\* handles; every ingress rule on the cluster stems from one of these writes.
C16_WritesToReceivedHandles ==
  /\ writes
       = (IF Returned("createDatabaseResources")
          THEN { Write("createMigrationLambda", RDSPostgresDatabaseName,
                       "AllowFrom DbMigrationLambdaSG 5432"),
                 Write("setupMigrationLambdaPermissions", "DbMigrationLambdaRole",
                       "AddManagedPolicy"),
                 Write("setupMigrationLambdaPermissions", "DbMigrationLambdaRole",
                       "AddToPolicy") }
          ELSE {})
         \cup (IF Returned("createAPIGatewayResources")
               THEN { Write("createAPIGatewayResources", RDSPostgresDatabaseName,
                            "AllowFrom EcsServiceSG 5432"),
                      Write("createAPIGatewayResources", "compute", "Service =") }
               ELSE {})
  /\ panicked = Nil =>
       Cardinality(ClusterIngressRules)
         = Cardinality({w \in writes : w.target = RDSPostgresDatabaseName})
  /\ h["compute.Service"] # Nil <=>
       Write("createAPIGatewayResources", "compute", "Service =") \in writes

C16_Witness ==
  /\ Returned("createAPIGatewayResources")
  /\ Cardinality(ClusterIngressRules) = 2
  /\ h["compute.Service"] = "CodeRefactorService"

UserPoolClientProps == props["CodeRefactorUserPoolClient"]

\* C17: the user-pool client fixes the validity of the ID token and of the
\* access token at 24 hours (1440 minutes) and that of the refresh token at 30
\* days (43200 minutes), for every account, region and run; the refresh token
\* so outlives the other two.
C17_TokenValidity ==
  Returned("createCognitoResources") =>
    /\ UserPoolClientProps.idTokenValidity = 1440
    /\ UserPoolClientProps.accessTokenValidity = 1440
    /\ UserPoolClientProps.refreshTokenValidity = 43200
    /\ UserPoolClientProps.refreshTokenValidity > UserPoolClientProps.idTokenValidity
    /\ UserPoolClientProps.refreshTokenValidity > UserPoolClientProps.accessTokenValidity

C17_Witness ==
  /\ Returned("createCognitoResources")
  /\ "CodeRefactorUserPoolClient" \in DOMAIN props
  /\ account # AccountPool[1]
  /\ region # RegionPool[1]
  /\ run > 1

VpcOf(id) == props[props[id].vpc]

\* C18: the network has subnets in at least two availability zones, all of them
\* public, and no NAT gateway; the database cluster is placed in the network's
\* subnets.
C18_TwoZonesPublicNoNat ==
  /\ Returned("createNetworkingResources") =>
       /\ Cardinality({sn.zone : sn \in props["RefactorVpc"].subnets}) >= 2
       /\ \A sn \in props["RefactorVpc"].subnets : sn.type = "PUBLIC"
       /\ props["RefactorVpc"].natGateways = 0
  /\ Returned("createDatabaseResources") =>
       /\ props[RDSPostgresDatabaseName].vpc = h["networking.Vpc"]
       /\ SelectSubnets(VpcOf(RDSPostgresDatabaseName),
                        props[RDSPostgresDatabaseName].subnetType)
            = props["RefactorVpc"].subnets
       /\ Cardinality({sn.zone : sn \in SelectSubnets(VpcOf(RDSPostgresDatabaseName),
                                     props[RDSPostgresDatabaseName].subnetType)}) >= 2

C18_Witness ==
  /\ Returned("createDatabaseResources")
  /\ Cardinality(props["RefactorVpc"].subnets) = 2
  /\ AvailabilityZones(region) > 2

\* C19: after a panic in a call of NewAppStack, that call has not returned, no
\* later builder has run or set a handle, the outputs are incomplete and no
\* AppStack has been returned.
C19_PanicStopsConstruction ==
  panicked # Nil =>
    /\ ~Done
    /\ NewAppStackOrder[pc] = panicked
    /\ Len(called) = pc - 1
    /\ \A i \in pc..Len(NewAppStackOrder) : ~Returned(NewAppStackOrder[i])
    /\ \A i \in pc..Len(NewAppStackOrder) :
         NewAppStackOrder[i] \in Builders =>
           \A f \in FieldsOf[NewAppStackOrder[i]] : h[f] = Nil
    /\ Cardinality(outputs) < Len(OutputOrder)
    /\ appStack = <<>>

\* The panic of getThisFileDir: in createMigrationLambda, after the role's
\* permissions and before the function.
C19_Witness ==
  /\ panicked = "createDatabaseResources"
  /\ Len(decls) = 8
  /\ decls[Len(decls)].id = "DbMigrationLambdaRole/DefaultPolicy"
  /\ ~\E k \in 1..Len(decls) : decls[k].id = "DbMigrationLambda"
  /\ appStack = <<>>

Attempted(step) == \E i \in 1..Len(mk.attempted) : mk.attempted[i] = step

\* C20: in every run of the destroy target that has ended, the interface cleanup
\* was attempted, after the stack teardown, and the run failed neither because
\* of the secret deletion nor because of the interface cleanup.
C20_CleanupOnEveryDestroy ==
  mk.exit \in {"0", "2"} =>
    /\ Attempted("eni-cleanup")
    /\ \A i, j \in 1..Len(mk.attempted) :
         (mk.attempted[i] = "cdk destroy" /\ mk.attempted[j] = "eni-cleanup") => i < j
    /\ mk.exit = "2" => mk.failed \cap {"delete-secret", "eni-cleanup"} = {}

\* C21: every invocation of NewAppStack ends, by returning the AppStack or by a
\* panic; the position in the call sequence only moves forward, one call at a
\* time; the one loop, over the parameter map, makes one declaration for each of
\* its 19 entries; and the AppStack is returned exactly when the last call, which
\* emits the 13 outputs after the configuration records, has been made.
C21_NewAppStackTerminates ==
  /\ <>(Done \/ panicked # Nil)
  /\ [][pc' = pc + 1 \/ pc' = pc]_vars
  /\ [](Returned("createConfigurationStores") =>
          /\ Len(iter) = Len(AllParams(h, s, account, region))
          /\ Cardinality(DeclsOfType("AWS::SSM::Parameter")) = Len(iter)
          /\ Len(iter) = 19)
  /\ [](Done <=> appStack # <<>>)
  /\ [](Done =>
          /\ called = NewAppStackOrder
          /\ Cardinality(outputs) = Len(OutputOrder)
          /\ decls[Len(decls)].id = "FrontendSecrets")

C21_Witness ==
  /\ Done
  /\ panicked = Nil
  /\ Len(iter) = 19
  /\ Cardinality(outputs) = 13
  /\ appStack # <<>>

IdsOf(ds) == {ds[i].id : i \in 1..Len(ds)}

DeclaredBefore(i) == {decls[j].id : j \in 1..(i - 1)}

IsDeclared(id) == \E i \in 1..Len(decls) : decls[i].id = id

\* The declaration of id comes after every declaration of the identity builder
\* and before every declaration of the compute builder.
BetweenIdentityAndCompute(id) ==
  \A i \in 1..Len(decls) :
    decls[i].id = id =>
      /\ IdsOf(CognitoDecls(account)) \subseteq DeclaredBefore(i)
      /\ IdsOf(ComputeDecls(h, s, region)) \cap DeclaredBefore(i) = {}

\* C22 as stated: the knowledge-base role, the agent role and the CI role are
\* each declared after the identity builder's declarations and before the
\* compute builder's.
C22_TrustRolesBeforeCompute ==
  \A r \in {"BedrockKnowledgeBaseRole", "BedrockAgentRole", "GitHubActionsRole"} :
    BetweenIdentityAndCompute(r)

\* C22 as amended: the knowledge-base role and the agent role are declared by
\* createBedrockResources, after the identity builder's declarations and before
\* the compute builder's; the CI role is declared by createGitHubActionsRole, after
\* the compute, edge and frontend builders' declarations and before any
\* configuration record.
C22_TrustRolesInTwoSteps ==
  /\ BetweenIdentityAndCompute("BedrockKnowledgeBaseRole")
  /\ BetweenIdentityAndCompute("BedrockAgentRole")
  /\ Returned("createBedrockResources") <=>
       (IsDeclared("BedrockKnowledgeBaseRole") /\ IsDeclared("BedrockAgentRole"))
  /\ Returned("createGitHubActionsRole") <=> IsDeclared("GitHubActionsRole")
  /\ \A i \in 1..Len(decls) :
       decls[i].id = "GitHubActionsRole" =>
         /\ IdsOf(ComputeDecls(h, s, region)) \cup IdsOf(APIGatewayDecls(h))
              \cup IdsOf(FrontendDecls(account, region)) \subseteq DeclaredBefore(i)
         /\ \A j \in 1..(i - 1) :
              /\ decls[j].type # "AWS::SSM::Parameter"
              /\ decls[j].id \notin {"BackendSecrets", "FrontendSecrets"}
  /\ \A i \in 1..Len(decls) :
       decls[i].id \in {"BackendSecrets", "FrontendSecrets"} \/ decls[i].type = "AWS::SSM::Parameter"
         => "GitHubActionsRole" \in DeclaredBefore(i)

C22_Witness ==
  /\ Returned("createConfigurationStores")
  /\ IsDeclared("BedrockKnowledgeBaseRole")
  /\ IsDeclared("BedrockAgentRole")
  /\ IsDeclared("GitHubActionsRole")
  /\ IsDeclared("RefactorTaskDef")

Printed(message) == \E i \in 1..Len(sh.out) : sh.out[i] = message

\* C23: a run of setup-auth.sh in which the describe-stacks call failed has
\* printed "Failed to get stack outputs. Make sure the CodeRefactorInfra stack is
\* deployed." and has ended with status 1.
C23_DescribeFailureReported ==
  "describe-stacks" \in sh.failed =>
    /\ Printed("Failed to get stack outputs. Make sure the CodeRefactorInfra stack is deployed.")
    /\ sh.exit = "1"

C25_ServiceStartsWithNoTask ==
  Returned("createAPIGatewayResources") =>
    /\ IsDeclared("RefactorEcrRepo")
    /\ props["CodeRefactorService"].desiredCount = 0

\* The request was answered by the application container.
ReachedContainer == resp # <<>> /\ resp.status \in {"200", "upstream"}

\* C26: a request that reached the application container went through the API
\* gateway, where it carried a valid bearer token or matched one of the three
\* exempt routes; and the load balancer is not internet-facing.
C26_ContainerOnlyThroughGateway ==
  /\ ReachedContainer =>
       /\ resp.via = "gateway"
       /\ resp.header = "bearer-valid" \/ <<resp.method, resp.path>> \in PublicGets
  /\ Returned("createAPIGatewayResources") => ~props["CodeRefactorALB"].internetFacing

\* The published copies of an identifier: the returned AppStack's fields, the
\* CloudFormation outputs, the parameter-store records and the container's
\* environment variables that carry it.
FieldCopies(fields) == {Flat(appStack[f]) : f \in fields}

OutputCopies(keys) == {Flat(o.value) : o \in {x \in outputs : x.key \in keys}}

ParamCopies(names) == {Flat(e.value) : e \in {x \in paramStore : x.name \in names}}

EnvCopies(names) == {Flat(v.value) : v \in {x \in env : x.name \in names}}

Copies(fields, keys, params, vs) ==
  FieldCopies(fields) \cup OutputCopies(keys) \cup ParamCopies(params) \cup EnvCopies(vs)

PublishedCopies ==
  [ BucketName |->
      Copies({"BucketName"}, {"BucketName"},
             {ParamName("backend", <<"s3", "bucket", "name">>)}, {"AI_BEDROCK_S3_BUCKET_NAME"}),
    APIGatewayURL |->
      Copies({"APIGatewayURL"}, {"APIGatewayURL"},
             {ParamName("backend", <<"api", "gateway", "url">>),
              ParamName("frontend", <<"api", "base", "url">>)}, {}),
    CognitoUserPoolID |->
      Copies({"CognitoUserPoolID"}, {"CognitoUserPoolID"},
             {ParamName("backend", <<"cognito", "user", "pool", "id">>),
              ParamName("frontend", <<"cognito", "user", "pool", "id">>)},
             {"COGNITO_USER_POOL_ID"}),
    CognitoUserPoolClientID |->
      Copies({"CognitoUserPoolClientID"}, {"CognitoUserPoolClientID"}, {},
             {"COGNITO_CLIENT_ID"}),
    CognitoHostedUIURL |->
      Copies({"CognitoHostedUIURL"}, {"CognitoHostedUIURL"},
             {ParamName("frontend", <<"cognito", "hosted", "ui", "url">>)}, {}),
    RDSPostgresClusterARN |->
      Copies({"RDSPostgresClusterARN"}, {"RDSPostgresInstanceARN"},
             {ParamName("backend", <<"rds", "cluster", "arn">>)},
             {"AI_BEDROCK_RDS_POSTGRES_INSTANCE_ARN"}),
    RDSPostgresCredentialsSecretARN |->
      Copies({"RDSPostgresCredentialsSecretARN"}, {"RDSPostgresCredentialsSecretARN"}, {},
             {"AI_BEDROCK_RDS_POSTGRES_CREDENTIALS_SECRET_ARN"}),
    BedrockKnowledgeBaseRole |->
      Copies({"BedrockKnowledgeBaseRole"}, {"BedrockKnowledgeBaseRoleArn"}, {},
             {"AI_BEDROCK_KNOWLEDGE_BASE_SERVICE_ROLE_ARN"}),
    BedrockAgentRole |->
      Copies({"BedrockAgentRole"}, {"BedrockAgentRoleArn"}, {},
             {"AI_BEDROCK_AGENT_SERVICE_ROLE_ARN"}),
    FrontendBucketName |->
      Copies({"FrontendBucketName"}, {"FrontendBucketName"},
             {ParamName("deployment", <<"frontend", "bucket">>)}, {}),
    CloudFrontDistributionID |->
      Copies({"CloudFrontDistributionID"}, {"CloudFrontDistributionID"},
             {ParamName("deployment", <<"cloudfront", "distribution", "id">>)}, {}),
    CloudFrontDistributionDomainName |->
      Copies({"CloudFrontDistributionDomainName"}, {"CloudFrontDistributionDomainName"},
             {ParamName("frontend", <<"cloudfront", "domain">>)}, {}) ]

\* C27: once NewAppStack has returned, every identifier it publishes in more
\* than one place (AppStack field, CloudFormation output, parameter-store
\* record, container environment variable) has one value: all its published
\* copies are equal.
C27_PublishedCopiesAgree ==
  Done => \A identifier \in DOMAIN PublishedCopies :
            Cardinality(PublishedCopies[identifier]) = 1

\* The keys of a parameter map.
Keys(entries) == {entries[i].name : i \in 1..Len(entries)}

ParameterDecls == DeclsOfType("AWS::SSM::Parameter")

\* C28: in createNonSecretParameters the backend, frontend and deployment maps
\* have pairwise distinct keys, distinct parameter names have distinct construct
\* IDs, and so the loop declares exactly one parameter per configured record,
\* 19 in all, no two of them under the same construct ID.
C28_ParameterKeysAndIDsDistinct ==
  Returned("createConfigurationStores") =>
    LET backend == Keys(BackendParams(h, s, account, region))
        frontend == Keys(FrontendParams(h, s, region))
        deployment == Keys(DeploymentParams(h, s, region))
        names == backend \cup frontend \cup deployment
    IN /\ backend \cap frontend = {}
       /\ backend \cap deployment = {}
       /\ frontend \cap deployment = {}
       /\ \A m, n \in names :
            Flat(ConstructID(m)) = Flat(ConstructID(n)) => m = n
       /\ Cardinality(names) = 19
       /\ {d.name : d \in ParameterDecls} = names
       /\ Cardinality({d.id : d \in ParameterDecls}) = 19
       /\ Cardinality(ParameterDecls) = 19
       /\ \A i, j \in 1..Len(decls) : decls[i].id = decls[j].id => i = j

C28_Witness ==
  /\ Returned("createConfigurationStores")
  /\ IsDeclared("Parambackendawsregion")
  /\ IsDeclared("Paramfrontendawsregion")
  /\ IsDeclared("Paramdeploymentawsregion")
  /\ IsDeclared("Parambackendrdspostgresschemaensurelambdaarn")

\* The rule that lets the members of a security group reach the database
\* cluster on TCP port 5432.
PostgresFrom(sg) ==
  [ id |-> RDSPostgresDatabaseName \o "/from/" \o sg \o ":" \o "5432",
    type |-> "AWS::EC2::SecurityGroupIngress",
    name |-> <<>>,
    refs |-> {RDSPostgresDatabaseName, sg} ]

\* C29: the only inbound rules added to the security group of the database
\* cluster are TCP port 5432 from the security group of the migration function
\* and TCP port 5432 from the security group of the container service; after
\* construction both are there, and no builder has opened the cluster to any
\* other source or port.
C29_ClusterIngressOnlyPostgres ==
  /\ ClusterIngressRules \subseteq {PostgresFrom("DbMigrationLambdaSG"), PostgresFrom("EcsServiceSG")}
  /\ Returned("createDatabaseResources") =>
       PostgresFrom("DbMigrationLambdaSG") \in ClusterIngressRules
  /\ Returned("createAPIGatewayResources") =>
       PostgresFrom("EcsServiceSG") \in ClusterIngressRules
  /\ Done =>
       ClusterIngressRules = {PostgresFrom("DbMigrationLambdaSG"), PostgresFrom("EcsServiceSG")}

C29_Witness ==
  /\ Done
  /\ PostgresFrom("DbMigrationLambdaSG") \in ClusterIngressRules
  /\ PostgresFrom("EcsServiceSG") \in ClusterIngressRules
  /\ Cardinality(DeclsOfType("AWS::EC2::SecurityGroupIngress")) = 2

\* The subject names a ref of the repository kazemisoroush/<repo>.
SubjectOfRepo(sub, repo) == HasPrefix(sub, <<"repo:", "kazemisoroush", "/", repo, ":">>)

SecretsManagerStatements ==
  {st \in props["GitHubActionsRole"].inlinePolicies :
     \E a \in st.actions : a \in {"secretsmanager:GetSecretValue", "secretsmanager:DescribeSecret"}}

Next ==
  \/ createNetworkingResources
  \/ createStorageResources
  \/ createDatabaseResources
  \/ createCognitoResources
  \/ createBedrockResources
  \/ createComputeResources
  \/ createAPIGatewayResources
  \/ createFrontendResources
  \/ createGitHubActionsRole
  \/ createConfigurationStores
  \/ EmitOutputsAndReturn
  \/ Panic
  \/ TeardownAndRebuild
  \/ HandleRequest

Spec == Init /\ [][Next]_vars
====
